---- MODULE Spec2Model ----
(***************************************************************************)
(* A model of the function-argument rearrangement pass of                  *)
(* tensorflow/compiler/tf2xla/rearrange_function_argument_pass.cc:         *)
(* a call-like node (While, StatefulPartitionedCall, If) of a graph g is   *)
(* rewritten so that its DT_RESOURCE inputs trail, its DT_RESOURCE outputs *)
(* are read from the producers of the matching inputs, and the function    *)
(* bodies it references are re-registered under fresh names.               *)
(*                                                                         *)
(* Indices (argument positions, edge slots, "index" attributes) are        *)
(* 0-based as in the source; a TLA+ sequence s holds position i at s[i+1]. *)
(***************************************************************************)
EXTENDS Integers, Sequences, FiniteSets, TLC

\* ------------------------------------------------------------------ bounds
\* Most data inputs of the node under rewrite (an If node's predicate is one).
MaxInputs == 3
\* Longest output type list of a StatefulPartitionedCall / If node.
MaxRets == 2
\* Longest chain of Identity nodes between a body's source node and a _Retval.
MaxIdentity == 1
\* Longest type list that InputTypesNeedsRearrange is applied to on its own.
MaxTypes == 5
\* SpecPass: the compile nodes of the top-level graph and the call nodes of
\* the function they name number MaxSites + 1 together at most.
MaxSites == 2
\* SpecPass: the longest type list of a node inside a function body.
MaxPassInputs == 2
\* SpecPass: the deepest nesting of RearrangeFunctionArgumentForFunction.
MaxDepth == 4

\* ------------------------------------------------------------------- types
DT_INVALID == "DT_INVALID"
DT_FLOAT == "DT_FLOAT"
DT_BOOL == "DT_BOOL"
DT_RESOURCE == "DT_RESOURCE"

\* The slot number of a control edge (Graph::kControlSlot).
kControlSlot == -1

\* A value for "no node" / "no attribute".
NoNode == <<"none">>

\* An int variable is held as the set of values it may have: the one value
\* once it was written, IndeterminateInt (what a read of the uninitialized
\* variable may give) while it was not.
IndeterminateInt == {0, 1}
Written(v) == {v}
ValueOf(S) == CHOOSE v \in S : TRUE

\* Sequences over S of length lo..hi.
SeqsOf(S, lo, hi) == UNION {[1..k -> S] : k \in lo..hi}

\* ------------------------------------------------ InputTypesNeedsRearrange
\* Lines 57-64: the first position of a DT_RESOURCE at or after i, or -1.
RECURSIVE FirstResourceIndex(_, _)
FirstResourceIndex(in_types, i) ==
  IF i >= Len(in_types) THEN -1
  ELSE IF in_types[i + 1] = DT_RESOURCE THEN i
  ELSE FirstResourceIndex(in_types, i + 1)

\* A scan of the whole list instead of the part behind the first resource: a
\* list that begins with non-resources and ends with resources is reported
\* as needing a rewrite.
NonResourceAfter_FromStart(in_types, i) ==
  \E k \in 1..Len(in_types) : in_types[k] # DT_RESOURCE

\* Lines 71-77: whether a non-DT_RESOURCE type stands at a position >= i.
RECURSIVE NonResourceAfter(_, _)
NonResourceAfter(in_types, i) ==
  IF i >= Len(in_types) THEN FALSE
  ELSE IF in_types[i + 1] # DT_RESOURCE THEN TRUE
  ELSE NonResourceAfter(in_types, i + 1)

\* Lines 82-88: the number of DT_RESOURCE entries at positions >= i.
RECURSIVE CountResources(_, _)
CountResources(in_types, i) ==
  IF i >= Len(in_types) THEN 0
  ELSE (IF in_types[i + 1] = DT_RESOURCE THEN 1 ELSE 0)
       + CountResources(in_types, i + 1)

\* The same loop handing the resource class its indices from the top down:
\* still a bijection onto the tail, but not a stable one.
RECURSIVE FillIndexMapping_Descending(_, _, _, _, _)
FillIndexMapping_Descending(in_types, i, non_resource_index, resource_index, index_mapping) ==
  IF i >= Len(in_types) THEN index_mapping
  ELSE IF in_types[i + 1] # DT_RESOURCE
    THEN FillIndexMapping_Descending(
           in_types, i + 1, non_resource_index + 1, resource_index,
           [index_mapping EXCEPT ![i + 1] = non_resource_index])
    ELSE FillIndexMapping_Descending(
           in_types, i + 1, non_resource_index, resource_index + 1,
           [index_mapping EXCEPT
              ![i + 1] = (2 * Len(in_types) - CountResources(in_types, 0) - 1)
                         - resource_index])

\* Lines 92-100: the loop that assigns the next low index to a non-resource
\* position and the next high index to a resource position.
RECURSIVE FillIndexMapping(_, _, _, _, _)
FillIndexMapping(in_types, i, non_resource_index, resource_index, index_mapping) ==
  IF i >= Len(in_types) THEN index_mapping
  ELSE IF in_types[i + 1] # DT_RESOURCE
    THEN FillIndexMapping(in_types, i + 1, non_resource_index + 1,
                          resource_index,
                          [index_mapping EXCEPT ![i + 1] = non_resource_index])
    ELSE FillIndexMapping(in_types, i + 1, non_resource_index,
                          resource_index + 1,
                          [index_mapping EXCEPT ![i + 1] = resource_index])

\* Lines 54-103.  The two out-parameters that the early returns leave
\* unwritten keep the values the caller's variables held: count_in and
\* mapping_in.
InputTypesNeedsRearrange(in_types, count_in, mapping_in) ==
  LET first_resource_index == FirstResourceIndex(in_types, 0) IN
  IF first_resource_index = -1
  THEN [need_rewrite |-> FALSE, resource_input_count |-> count_in,
        index_mapping |-> mapping_in]
  ELSE IF ~NonResourceAfter(in_types, first_resource_index + 1)
  THEN [need_rewrite |-> FALSE, resource_input_count |-> count_in,
        index_mapping |-> mapping_in]
  ELSE LET count == CountResources(in_types, 0) IN
       [need_rewrite |-> TRUE,
        resource_input_count |-> Written(count),
        index_mapping |->
          FillIndexMapping(in_types, 0, 0, Len(in_types) - count,
                           [k \in 1..Len(in_types) |-> 0])]

\* ------------------------------------------- ShuffleInputDataTypeAttribute
\* A shuffle that reads the mapping backwards (result[i] = in_types[map[i]]).
RECURSIVE ShuffleInputLoop_Inverse(_, _, _, _)
ShuffleInputLoop_Inverse(in_types, index_mapping, i, result) ==
  IF i >= Len(in_types) THEN result
  ELSE ShuffleInputLoop_Inverse(
         in_types, index_mapping, i + 1,
         [result EXCEPT ![i + 1] = in_types[index_mapping[i + 1] + 1]])

\* Lines 43-45.
RECURSIVE ShuffleInputLoop(_, _, _, _)
ShuffleInputLoop(in_types, index_mapping, i, result) ==
  IF i >= Len(in_types) THEN result
  ELSE ShuffleInputLoop(
         in_types, index_mapping, i + 1,
         [result EXCEPT ![index_mapping[i + 1] + 1] = in_types[i + 1]])

\* Lines 39-47.
ShuffleInputDataTypeAttribute(in_types, index_mapping) ==
  ShuffleInputLoop(in_types, index_mapping, 0,
                   [k \in 1..Len(index_mapping) |-> DT_INVALID])

\* ------------------------------------------------------------- Graph store
\* The graph g of the function under rewrite is its edge table (Graph::edges_):
\* position id holds the edge whose id is id, or NoEdge once it was removed; a
\* node is known by its name.
MakeEdge(src, src_output, dst, dst_input) ==
  [src |-> src, src_output |-> src_output, dst |-> dst, dst_input |-> dst_input]

IsControlEdge(e) == e.src_output = kControlSlot

\* What the edge table holds at the id of a removed edge.
NoEdge == MakeEdge(NoNode, 0, NoNode, 0)

\* Graph::RemoveEdge: the edge leaves the graph, its id is not given again.
RemoveEdge(g, h) == [g EXCEPT ![h] = NoEdge]

\* Graph::AddEdge as the pass calls it: the edge is added under the next id
\* and returned; no call site of the pass looks at a failure, and none is
\* modelled.
AddEdge(g, src, src_output, dst, dst_input) ==
  Append(g, MakeEdge(src, src_output, dst, dst_input))

in_edges(g, n) == {h \in DOMAIN g : g[h].dst = n}
out_edges(g, n) == {h \in DOMAIN g : g[h].src = n}

MinOf(S) == CHOOSE x \in S : \A y \in S : x <= y

\* Node::input_edge(idx, &e): the in-edge of n that ends at slot idx.
\* num_inputs is the input arity the node was built with.
input_edge(g, n, idx, num_inputs) ==
  IF idx < 0 \/ idx >= num_inputs
  THEN [status |-> "InvalidArgument", edge |-> 0]
  ELSE LET found == {h \in in_edges(g, n) : g[h].dst_input = idx} IN
       IF found = {} THEN [status |-> "NotFound", edge |-> 0]
       ELSE [status |-> "OK", edge |-> MinOf(found)]

\* ------------------------------------------------------- ReorderInputEdges
\* Lines 116-123: each edge of the snapshot is removed and re-added at the
\* slot the mapping gives its old slot.
RECURSIVE ReorderInputEdgesLoop(_, _, _, _)
ReorderInputEdgesLoop(g, n, input_edges, index_mapping) ==
  IF input_edges = {} THEN g
  ELSE LET h == MinOf(input_edges)
           e == g[h]
           new_dst_input == index_mapping[e.dst_input + 1]
       IN ReorderInputEdgesLoop(
            AddEdge(RemoveEdge(g, h), e.src, e.src_output, n, new_dst_input),
            n, input_edges \ {h}, index_mapping)

\* Lines 107-125.
ReorderInputEdges(g, n, index_mapping) ==
  ReorderInputEdgesLoop(
    g, n, {h \in in_edges(g, n) : ~IsControlEdge(g[h])}, index_mapping)

\* ------------------------------------------------------ ReorderOutputEdges
\* The loop without the bypass: a consumer of an eliminated output is left
\* reading the node's slot index_mapping[i].
RECURSIVE ReorderOutputEdgesLoop_NoBypass(_, _, _, _, _, _)
ReorderOutputEdgesLoop_NoBypass(g, n, output_edges, input_count, resource_input_count, index_mapping) ==
  IF output_edges = {} THEN [status |-> "OK", g |-> g]
  ELSE LET h == MinOf(output_edges)
           e == g[h]
           new_src_output == index_mapping[e.src_output + 1]
       IN ReorderOutputEdgesLoop_NoBypass(
            AddEdge(RemoveEdge(g, h), n, new_src_output, e.dst, e.dst_input),
            n, output_edges \ {h}, input_count, resource_input_count,
            index_mapping)

\* Lines 141-155.
RECURSIVE ReorderOutputEdgesLoop(_, _, _, _, _, _)
ReorderOutputEdgesLoop(g, n, output_edges, input_count, resource_input_count, index_mapping) ==
  IF output_edges = {} THEN [status |-> "OK", g |-> g]
  ELSE LET h == MinOf(output_edges)
           e == g[h]
           new_src_output == index_mapping[e.src_output + 1]
           g1 == RemoveEdge(g, h)
       IN IF new_src_output < input_count - resource_input_count
          THEN ReorderOutputEdgesLoop(
                 AddEdge(g1, n, new_src_output, e.dst, e.dst_input),
                 n, output_edges \ {h}, input_count, resource_input_count,
                 index_mapping)
          ELSE LET r == input_edge(g1, n, new_src_output, input_count) IN
               IF r.status # "OK" THEN [status |-> r.status, g |-> g1]
               ELSE ReorderOutputEdgesLoop(
                      AddEdge(g1, g1[r.edge].src, g1[r.edge].src_output,
                              e.dst, e.dst_input),
                      n, output_edges \ {h}, input_count,
                      resource_input_count, index_mapping)

\* Lines 131-157.
ReorderOutputEdges(g, n, input_count, resource_input_count, index_mapping) ==
  ReorderOutputEdgesLoop(
    g, n, {h \in out_edges(g, n) : ~IsControlEdge(g[h])},
    input_count, resource_input_count, index_mapping)

\* --------------------------------------------------------- function bodies
\* A node of a function body graph: its op, its "T" and "index" attributes
\* (-1 when the op has none) and the node that feeds its input 0.
BodyNode(op, T, index, in0) == [op |-> op, T |-> T, index |-> index, in0 |-> in0]

\* A function definition: its name, its signature's arguments and return
\* values in order, and the other nodes of its body.
\* FunctionDefToBodyHelper: the body graph of a definition; the i-th _Arg and
\* the j-th _Retval node carry index i and j.
FunctionDefToBodyHelper(fdef) ==
  LET args == {fdef.arg[i].node : i \in 1..Len(fdef.arg)}
      rets == {fdef.ret[j].node : j \in 1..Len(fdef.ret)}
      ArgAt(x) == CHOOSE i \in 1..Len(fdef.arg) : fdef.arg[i].node = x
      RetAt(x) == CHOOSE j \in 1..Len(fdef.ret) : fdef.ret[j].node = x
  IN [graph |->
        [x \in DOMAIN fdef.node_def \cup args \cup rets |->
           IF x \in args
           THEN BodyNode("_Arg", fdef.arg[ArgAt(x)].type, ArgAt(x) - 1, NoNode)
           ELSE IF x \in rets
           THEN BodyNode("_Retval", fdef.ret[RetAt(x)].type, RetAt(x) - 1,
                         fdef.ret[RetAt(x)].in0)
           ELSE fdef.node_def[x]],
      arg_nodes |-> [i \in 1..Len(fdef.arg) |-> fdef.arg[i].node],
      ret_nodes |-> [j \in 1..Len(fdef.ret) |-> fdef.ret[j].node]]

\* GraphToFunctionDef: the definition of a body graph under a name; the
\* signature lists the _Arg and the _Retval nodes by their index attribute.
GraphToFunctionDef(graph, name) ==
  LET args == {x \in DOMAIN graph : graph[x].op = "_Arg"}
      rets == {x \in DOMAIN graph : graph[x].op = "_Retval"}
      Dense(S) == /\ {graph[x].index : x \in S} = 0..(Cardinality(S) - 1)
                  /\ \A x, y \in S : graph[x].index = graph[y].index => x = y
      ArgOf(i) == CHOOSE x \in args : graph[x].index = i
      RetOf(j) == CHOOSE x \in rets : graph[x].index = j
  IN IF ~Dense(args) \/ ~Dense(rets)
     THEN [status |-> "Internal", fdef |-> <<>>]
     ELSE [status |-> "OK",
           fdef |->
             [name |-> name,
              arg |-> [i \in 1..Cardinality(args) |->
                         [node |-> ArgOf(i - 1), type |-> graph[ArgOf(i - 1)].T]],
              ret |-> [j \in 1..Cardinality(rets) |->
                         [node |-> RetOf(j - 1), type |-> graph[RetOf(j - 1)].T,
                          in0 |-> graph[RetOf(j - 1)].in0]],
              node_def |-> [x \in DOMAIN graph \ (args \cup rets) |-> graph[x]]]]

\* Graph::RemoveNode on a body graph.
RemoveNode(graph, x) == [y \in DOMAIN graph \ {x} |-> graph[y]]

\* FunctionLibraryDefinition::UniqueFunctionName: prefix followed by the
\* least index that names no function of the library.  A function name is a
\* sequence of its parts; StrCat appends one.
Digits == <<"0", "1", "2", "3", "4", "5", "6", "7", "8", "9">>
StrCat(name, part) == Append(name, part)
UniqueFunctionName(fld, prefix) ==
  LET index == CHOOSE i \in 0..9 :
                 /\ StrCat(prefix, Digits[i + 1]) \notin DOMAIN fld
                 /\ \A k \in 0..(i - 1) : StrCat(prefix, Digits[k + 1]) \in DOMAIN fld
  IN StrCat(prefix, Digits[index + 1])

\* FunctionLibraryDefinition::AddFunctionDef.
AddFunctionDef(fld, fdef) ==
  IF fdef.name \in DOMAIN fld
  THEN IF fld[fdef.name] = fdef
       THEN [status |-> "OK", fld |-> fld]
       ELSE [status |-> "InvalidArgument", fld |-> fld]
  ELSE [status |-> "OK", fld |-> (fdef.name :> fdef) @@ fld]

\* ------------------------------------------------------- RearrangeArgNodes
\* The loop that leaves every index attribute as it is.
RECURSIVE RearrangeArgNodes_Unchanged(_, _, _, _)
RearrangeArgNodes_Unchanged(graph, arg_nodes, index_mapping, i) ==
  IF i >= Len(arg_nodes) THEN graph
  ELSE RearrangeArgNodes_Unchanged(
         [graph EXCEPT ![arg_nodes[i + 1]].index = @], arg_nodes,
         index_mapping, i + 1)

\* Lines 161-169: arg_nodes[i] gets index attribute index_mapping[i].
RECURSIVE RearrangeArgNodes(_, _, _, _)
RearrangeArgNodes(graph, arg_nodes, index_mapping, i) ==
  IF i >= Len(arg_nodes) THEN graph
  ELSE RearrangeArgNodes(
         [graph EXCEPT ![arg_nodes[i + 1]].index = index_mapping[i + 1]],
         arg_nodes, index_mapping, i + 1)

\* ------------------------------------------------ CalculateRetvalRearrange
\* std::map::insert: an existing key keeps its value.
MapInsert(m, k, v) == IF k \in DOMAIN m THEN m ELSE (k :> v) @@ m
EmptyMap == <<>>

\* Lines 327-331: the node reached from x by following input 0 across
\* Identity nodes.
RECURSIVE TraceIdentity(_, _)
TraceIdentity(graph, x) ==
  IF graph[x].op = "Identity" THEN TraceIdentity(graph, graph[x].in0) ELSE x

\* The loop with the trace of lines 329-331 put before the test of line 193:
\* a resource _Retval behind a chain of Identity nodes is accepted and mapped
\* to the _Arg the chain starts at.
RECURSIVE CalculateRetvalRearrange_TraceIdentity(_, _, _, _, _)
CalculateRetvalRearrange_TraceIdentity(graph, ret_nodes, i, retval_index_mapping, resource_retval_to_arg) ==
  IF i >= Len(ret_nodes)
  THEN [status |-> "OK", retval_index_mapping |-> retval_index_mapping,
        resource_retval_to_arg |-> resource_retval_to_arg]
  ELSE LET n == graph[ret_nodes[i + 1]] IN
       IF n.T # DT_RESOURCE
       THEN CalculateRetvalRearrange_TraceIdentity(
              graph, ret_nodes, i + 1,
              MapInsert(retval_index_mapping, i,
                        Cardinality(DOMAIN retval_index_mapping)),
              resource_retval_to_arg)
       ELSE IF graph[TraceIdentity(graph, n.in0)].op # "_Arg"
       THEN [status |-> "Unimplemented",
             retval_index_mapping |-> retval_index_mapping,
             resource_retval_to_arg |-> resource_retval_to_arg]
       ELSE CalculateRetvalRearrange_TraceIdentity(
              graph, ret_nodes, i + 1, retval_index_mapping,
              MapInsert(resource_retval_to_arg, i,
                        graph[TraceIdentity(graph, n.in0)].index))

\* The loop without the test of line 193: the source of a resource _Retval is
\* taken for an _Arg whatever it is.
RECURSIVE CalculateRetvalRearrange_NoArgTest(_, _, _, _, _)
CalculateRetvalRearrange_NoArgTest(graph, ret_nodes, i, retval_index_mapping, resource_retval_to_arg) ==
  IF i >= Len(ret_nodes)
  THEN [status |-> "OK", retval_index_mapping |-> retval_index_mapping,
        resource_retval_to_arg |-> resource_retval_to_arg]
  ELSE LET n == graph[ret_nodes[i + 1]] IN
       IF n.T # DT_RESOURCE
       THEN CalculateRetvalRearrange_NoArgTest(
              graph, ret_nodes, i + 1,
              MapInsert(retval_index_mapping, i,
                        Cardinality(DOMAIN retval_index_mapping)),
              resource_retval_to_arg)
       ELSE CalculateRetvalRearrange_NoArgTest(
              graph, ret_nodes, i + 1, retval_index_mapping,
              MapInsert(resource_retval_to_arg, i,
                        IF graph[n.in0].index >= 0 THEN graph[n.in0].index
                        ELSE 0))

\* Lines 177-205, from position i on.  The two maps are the caller's: what an
\* earlier call inserted stays, and what was inserted before an error stays.
RECURSIVE CalculateRetvalRearrange(_, _, _, _, _)
CalculateRetvalRearrange(graph, ret_nodes, i, retval_index_mapping, resource_retval_to_arg) ==
  IF i >= Len(ret_nodes)
  THEN [status |-> "OK", retval_index_mapping |-> retval_index_mapping,
        resource_retval_to_arg |-> resource_retval_to_arg]
  ELSE LET n == graph[ret_nodes[i + 1]] IN
       IF n.T # DT_RESOURCE
       THEN CalculateRetvalRearrange(
              graph, ret_nodes, i + 1,
              MapInsert(retval_index_mapping, i,
                        Cardinality(DOMAIN retval_index_mapping)),
              resource_retval_to_arg)
       ELSE IF n.in0 = NoNode
       THEN [status |-> "NotFound",
             retval_index_mapping |-> retval_index_mapping,
             resource_retval_to_arg |-> resource_retval_to_arg]
       ELSE IF graph[n.in0].op # "_Arg"
       THEN [status |-> "Unimplemented",
             retval_index_mapping |-> retval_index_mapping,
             resource_retval_to_arg |-> resource_retval_to_arg]
       ELSE CalculateRetvalRearrange(
              graph, ret_nodes, i + 1, retval_index_mapping,
              MapInsert(resource_retval_to_arg, i, graph[n.in0].index))

\* ------------------------------------------ ShuffleOutputDataTypeAttribute
\* Lines 213-218.
RECURSIVE ShuffleOutputLoop(_, _, _, _)
ShuffleOutputLoop(out_types, index_mapping, i, result) ==
  IF i >= Len(out_types) THEN result
  ELSE IF i \in DOMAIN index_mapping
  THEN ShuffleOutputLoop(
         out_types, index_mapping, i + 1,
         [result EXCEPT ![index_mapping[i] + 1] = out_types[i + 1]])
  ELSE ShuffleOutputLoop(out_types, index_mapping, i + 1, result)

\* Lines 209-220.
ShuffleOutputDataTypeAttribute(out_types, index_mapping) ==
  ShuffleOutputLoop(
    out_types, index_mapping, 0,
    [k \in 1..Cardinality(DOMAIN index_mapping) |-> DT_INVALID])

\* ---------------------------------------------------- RearrangeOutputEdges
\* Lines 235-252 (offset 0) and lines 554-571 (offset 1, the If node, whose
\* input slot 0 is the predicate).
RECURSIVE RearrangeOutputEdgesLoop(_, _, _, _, _, _, _)
RearrangeOutputEdgesLoop(g, n, edges, retval_index_mapping, resource_retval_to_arg, offset, num_inputs) ==
  IF edges = {} THEN [status |-> "OK", g |-> g]
  ELSE LET h == MinOf(edges)
           e == g[h]
       IN IF e.src_output \notin DOMAIN retval_index_mapping
          THEN IF e.src_output \notin DOMAIN resource_retval_to_arg
               THEN [status |-> "Internal", g |-> g]
               ELSE LET g1 == RemoveEdge(g, h)
                        r == input_edge(
                               g1, n,
                               resource_retval_to_arg[e.src_output] + offset,
                               num_inputs)
                    IN IF r.status # "OK" THEN [status |-> r.status, g |-> g1]
                       ELSE RearrangeOutputEdgesLoop(
                              AddEdge(g1, g1[r.edge].src, g1[r.edge].src_output,
                                      e.dst, e.dst_input),
                              n, edges \ {h}, retval_index_mapping,
                              resource_retval_to_arg, offset, num_inputs)
          ELSE RearrangeOutputEdgesLoop(
                 AddEdge(RemoveEdge(g, h), n,
                         retval_index_mapping[e.src_output], e.dst, e.dst_input),
                 n, edges \ {h}, retval_index_mapping, resource_retval_to_arg,
                 offset, num_inputs)

\* Lines 226-254.
RearrangeOutputEdges(n, g, retval_index_mapping, resource_retval_to_arg, num_inputs) ==
  RearrangeOutputEdgesLoop(
    g, n, {h \in out_edges(g, n) : ~IsControlEdge(g[h])},
    retval_index_mapping, resource_retval_to_arg, 0, num_inputs)

\* ---------------------------------------------------- RearrangeRetvalNodes
\* The loop that removes the eliminated _Retval nodes but leaves the others
\* the index they had.
RECURSIVE RearrangeRetvalNodes_KeepIndex(_, _, _, _)
RearrangeRetvalNodes_KeepIndex(ret_nodes, graph, retval_index_mapping, i) ==
  IF i >= Len(ret_nodes) THEN graph
  ELSE IF i \notin DOMAIN retval_index_mapping
  THEN RearrangeRetvalNodes_KeepIndex(
         ret_nodes, RemoveNode(graph, ret_nodes[i + 1]), retval_index_mapping, i + 1)
  ELSE RearrangeRetvalNodes_KeepIndex(ret_nodes, graph, retval_index_mapping, i + 1)

\* Lines 259-272, from position i on.
RECURSIVE RearrangeRetvalNodes(_, _, _, _)
RearrangeRetvalNodes(ret_nodes, graph, retval_index_mapping, i) ==
  IF i >= Len(ret_nodes) THEN graph
  ELSE IF i \notin DOMAIN retval_index_mapping
  THEN RearrangeRetvalNodes(ret_nodes, RemoveNode(graph, ret_nodes[i + 1]),
                            retval_index_mapping, i + 1)
  ELSE RearrangeRetvalNodes(
         ret_nodes,
         [graph EXCEPT ![ret_nodes[i + 1]].index = retval_index_mapping[i]],
         retval_index_mapping, i + 1)

\* --------------------------------------------- MaybeRewriteWhileNode parts
\* The check with the comparison of line 335 left out: any _Arg is accepted.
RECURSIVE WhileBodyCheck_AnyArg(_, _, _)
WhileBodyCheck_AnyArg(graph, ret_nodes, i) ==
  IF i >= Len(ret_nodes) THEN "OK"
  ELSE LET n == graph[ret_nodes[i + 1]] IN
       IF n.T # DT_RESOURCE THEN WhileBodyCheck_AnyArg(graph, ret_nodes, i + 1)
       ELSE IF graph[TraceIdentity(graph, n.in0)].op = "_Arg"
            THEN WhileBodyCheck_AnyArg(graph, ret_nodes, i + 1)
            ELSE "Unimplemented"

\* Lines 319-346: every resource _Retval i of the body comes, across Identity
\* nodes, from the _Arg whose index is i.
RECURSIVE WhileBodyCheck(_, _, _)
WhileBodyCheck(graph, ret_nodes, i) ==
  IF i >= Len(ret_nodes) THEN "OK"
  ELSE LET n == graph[ret_nodes[i + 1]] IN
       IF n.T # DT_RESOURCE THEN WhileBodyCheck(graph, ret_nodes, i + 1)
       ELSE LET input_node == graph[TraceIdentity(graph, n.in0)] IN
            IF input_node.op = "_Arg"
            THEN IF input_node.index # i THEN "Unimplemented"
                 ELSE WhileBodyCheck(graph, ret_nodes, i + 1)
            ELSE "Unimplemented"

\* Lines 351-360: the body's _Retval i gets index index_mapping[i], or is
\* removed when that index is one of the trailing resource positions.
RECURSIVE WhileRearrangeRetvals(_, _, _, _, _, _)
WhileRearrangeRetvals(graph, ret_nodes, index_mapping, types_size, resource_input_count, i) ==
  IF i >= Len(ret_nodes) THEN graph
  ELSE LET new_index == index_mapping[i + 1] IN
       IF new_index < types_size - resource_input_count
       THEN WhileRearrangeRetvals(
              [graph EXCEPT ![ret_nodes[i + 1]].index = new_index],
              ret_nodes, index_mapping, types_size, resource_input_count, i + 1)
       ELSE WhileRearrangeRetvals(
              RemoveNode(graph, ret_nodes[i + 1]),
              ret_nodes, index_mapping, types_size, resource_input_count, i + 1)

\* ------------------------------------------------------------------ state
VARIABLES
  kind,       \* type_string of the node n under rewrite
  attrs,      \* the attributes of n: type lists and function names
  g,          \* the edges of the graph that holds n
  fld,        \* the function library: name -> definition
  entry,      \* what the rewrite of n was entered with: the attributes of n and
              \* the make-up of the bodies in the library (see EntryGraph, EntryFld)
  pc,         \* the place of the rewrite of n in its code
  status,     \* the Status the rewrite of n returned (at pc = "done")
  node_rewritten,
  in_types, out_types, input_need_rearrange, resource_input_count,
  index_mapping, has_resource_output,     \* locals of MaybeRewrite*Node
  attr_i,     \* position in the list of function attributes being rewritten
  f_name,     \* name of the function attribute being rewritten
  fbody,      \* its instantiated body
  retval_index_mapping, resource_retval_to_arg,
  options_graph,   \* options.graph: the nodes of the top-level graph of the pass
  run,        \* the activation of RearrangeFunctionArgumentPass::Run
  canonicalized_name_to_new_name,
  fld_modified,
  frames,     \* the activations of RearrangeFunctionArgumentForFunction,
              \* the innermost last
  input_edges_left,  \* ReorderInputEdges run edge by edge: the edges of
              \* its snapshot input_edges that the loop has still to move
  graph_def,  \* graph_def_util.cc: the GraphDef's nodes, in order
  op_registry, consumer_op_registry, producer_op_registry,
  node_offset,
  util_s,     \* Status s: what a call of graph_def_util.cc returned
  op_attr_removed,
  util_pc,    \* which call of graph_def_util.cc comes next
  graph_def_before,  \* the GraphDef as the caller first passed it
  handle_,    \* GrpcSession::handle_; <<>> is the empty string
  current_graph_version_,
  mu_,        \* the thread holding GrpcSession::mu_ across a step, or NoThread
  call,       \* per client thread, the GrpcSession call it is in
  master_,    \* the master: how many sessions it created, which are open
  output_tensor_names, outputs,   \* RunHelper's arguments
  run_resp,   \* what RunProto hands back: its Status and the tensors
  fetch,      \* the fetch list of the RunStepRequest
  run_s,      \* the Status RunHelper returned
  run_pc

nodeVars == <<kind, attrs, g, fld, entry>>
ctlVars == <<pc, status, node_rewritten>>
checkVars == <<in_types, out_types, input_need_rearrange, resource_input_count,
               index_mapping, has_resource_output>>
funcVars == <<attr_i, f_name, fbody>>
retVars == <<retval_index_mapping, resource_retval_to_arg>>
passVars == <<options_graph, run, canonicalized_name_to_new_name, fld_modified, frames>>
utilVars == <<graph_def, op_registry, consumer_op_registry, producer_op_registry,
              node_offset, util_s, op_attr_removed, util_pc, graph_def_before>>
sessVars == <<handle_, current_graph_version_, mu_, call, master_>>
runVars == <<output_tensor_names, outputs, run_resp, fetch, run_s, run_pc>>
otherVars == <<utilVars, sessVars, runVars>>
vars == <<nodeVars, ctlVars, checkVars, funcVars, retVars, passVars, input_edges_left,
          otherVars>>

\* The node under rewrite.
N == <<"n">>

NoBody == [graph |-> <<>>, arg_nodes |-> <<>>, ret_nodes |-> <<>>]

\* No pass is running: n is rewritten on its own.
NoRun == [pc |-> "none", n |-> 0, new_func_name |-> <<>>, status |-> "OK"]
NoPass ==
  /\ options_graph = <<>>
  /\ run = NoRun
  /\ canonicalized_name_to_new_name = EmptyMap
  /\ fld_modified = FALSE
  /\ frames = <<>>
  /\ input_edges_left = {}

\* No GraphDef is being upgraded or stripped.
NoUtil ==
  /\ graph_def = <<>>
  /\ op_registry = <<>>
  /\ consumer_op_registry = <<>>
  /\ producer_op_registry = <<>>
  /\ node_offset = 0
  /\ util_s = "OK"
  /\ op_attr_removed = {}
  /\ util_pc = "none"
  /\ graph_def_before = <<>>

\* No client thread, no master.
NoThread == "none"
NoSession ==
  /\ handle_ = <<>>
  /\ current_graph_version_ = -1
  /\ mu_ = NoThread
  /\ call = <<>>
  /\ master_ = <<>>

\* RunHelper is not called.
NoRunHelper ==
  /\ output_tensor_names = <<>>
  /\ outputs = <<>>
  /\ run_resp = <<>>
  /\ fetch = <<>>
  /\ run_s = "OK"
  /\ run_pc = "none"

NoOther == NoUtil /\ NoSession /\ NoRunHelper

\* ------------------------------------------------------------ initial states
DataTypes == {DT_FLOAT, DT_RESOURCE}

ResourceArgs(types) == {i \in 0..(Len(types) - 1) : types[i + 1] = DT_RESOURCE}

\* All sequences s of length k with s[j] in allowed[j].
RECURSIVE Choices(_, _)
Choices(allowed, k) ==
  IF k = 0 THEN {<<>>}
  ELSE {Append(s, c) : s \in Choices(allowed, k - 1), c \in allowed[k]}

\* The sources a body may give its return values: a resource return value
\* comes from one of the resource arguments (its position) or from an op of
\* the body (-1); any other return value is computed by an op of the body.
AllowedSources(arg_types, ret_types) ==
  [j \in 1..Len(ret_types) |->
     IF ret_types[j] = DT_RESOURCE
     THEN ResourceArgs(arg_types) \cup {-1} ELSE {-1}]
RetSources(arg_types, ret_types) ==
  Choices(AllowedSources(arg_types, ret_types), Len(ret_types))

\* The body node that return value j (0-based) of a body reads: its source,
\* behind ids Identity nodes when it is a resource.
SourceNode(srcs, j) ==
  IF srcs[j + 1] >= 0 THEN <<"arg", srcs[j + 1]>> ELSE <<"op", j>>
ChainLen(ret_types, ids, j) == IF ret_types[j + 1] = DT_RESOURCE THEN ids ELSE 0
ChainNode(ret_types, srcs, ids, j, h) ==
  IF h = 0 THEN SourceNode(srcs, j) ELSE <<"identity", j, h>>

\* A definition with the given signature whose return value j comes from
\* srcs[j], resource values passing through ids Identity nodes.
MakeFunctionDef(name, arg_types, ret_types, srcs, ids) ==
  LET ops == {<<"op", j>> : j \in {j \in 0..(Len(ret_types) - 1) : srcs[j + 1] < 0}}
      idn == {<<"identity", j, h>> :
                j \in {j \in 0..(Len(ret_types) - 1) : ret_types[j + 1] = DT_RESOURCE},
                h \in 1..ids}
  IN [name |-> name,
      arg |-> [i \in 1..Len(arg_types) |->
                 [node |-> <<"arg", i - 1>>, type |-> arg_types[i]]],
      ret |-> [j \in 1..Len(ret_types) |->
                 [node |-> <<"retval", j - 1>>, type |-> ret_types[j],
                  in0 |-> ChainNode(ret_types, srcs, ids, j - 1,
                                    ChainLen(ret_types, ids, j - 1))]],
      node_def |->
        [x \in ops \cup idn |->
           IF x \in ops
           THEN BodyNode(IF ret_types[x[2] + 1] = DT_RESOURCE
                         THEN "VarHandleOp" ELSE "Const",
                         ret_types[x[2] + 1], -1, NoNode)
           ELSE BodyNode("Identity", DT_RESOURCE, -1,
                         ChainNode(ret_types, srcs, ids, x[2], x[3] - 1))]]

\* The graph around n: a producer per input slot, a consumer per output
\* slot, and a control edge into and out of n.  An If node has its predicate
\* at input slot 0 and its arguments behind it.
InitGraph(k, n_in, n_out) ==
  LET off == IF k = "If" THEN 1 ELSE 0 IN
  (IF k = "If" THEN <<MakeEdge(<<"pred">>, 0, N, 0)>> ELSE <<>>)
  \o [i \in 1..n_in |-> MakeEdge(<<"in", i - 1>>, 0, N, i - 1 + off)]
  \o <<MakeEdge(<<"ctl_in">>, kControlSlot, N, kControlSlot)>>
  \o [j \in 1..n_out |-> MakeEdge(N, j - 1, <<"out", j - 1>>, 0)]
  \o <<MakeEdge(N, kControlSlot, <<"ctl_out">>, kControlSlot)>>

InputTypesOf(k, a) == IF k = "While" THEN a.T ELSE a.Tin
OutputTypesOf(k, a) == IF k = "While" THEN a.T ELSE a.Tout

\* The make-up of a body: the types and sources of its return values.
Body(ret_types, srcs, ids) == [ret_types |-> ret_types, srcs |-> srcs, ids |-> ids]

\* The library that holds, under each name of bodies, that body over the
\* argument types arg_types.
LibraryOf(arg_types, bodies) ==
  [nm \in DOMAIN bodies |->
     MakeFunctionDef(nm, arg_types, bodies[nm].ret_types, bodies[nm].srcs,
                     bodies[nm].ids)]

InitWith(k, a, bodies) ==
  /\ kind = k
  /\ attrs = a
  /\ g = InitGraph(k, Len(InputTypesOf(k, a)), Len(OutputTypesOf(k, a)))
  /\ fld = LibraryOf(InputTypesOf(k, a), bodies)
  /\ entry = [attrs |-> a, bodies |-> bodies]
  /\ pc = "start"
  /\ status = "OK"
  /\ node_rewritten = FALSE
  /\ in_types = <<>>
  /\ out_types = <<>>
  /\ input_need_rearrange = FALSE
  /\ resource_input_count = IndeterminateInt
  /\ index_mapping = <<>>
  /\ has_resource_output = FALSE
  /\ attr_i = 0
  /\ f_name = <<>>
  /\ fbody = NoBody
  /\ retval_index_mapping = EmptyMap
  /\ resource_retval_to_arg = EmptyMap
  /\ NoPass
  /\ NoOther

\* A While node: T types both its inputs and its outputs; cond returns a
\* bool, body returns one value per argument.
InitWhile ==
  \E T \in SeqsOf(DataTypes, 0, MaxInputs) :
    \E srcs \in RetSources(T, T), ids \in 0..MaxIdentity :
      InitWith("While",
               [T |-> T, cond |-> <<"cond">>, body |-> <<"body">>],
               (<<"cond">> :> Body(<<DT_BOOL>>, <<-1>>, 0))
               @@ (<<"body">> :> Body(T, srcs, ids)))

\* A StatefulPartitionedCall node: f takes Tin and returns Tout.
InitCall ==
  \E Tin \in SeqsOf(DataTypes, 0, MaxInputs), Tout \in SeqsOf(DataTypes, 0, MaxRets) :
    \E srcs \in RetSources(Tin, Tout), ids \in 0..MaxIdentity :
      InitWith("StatefulPartitionedCall",
               [Tin |-> Tin, Tout |-> Tout, f |-> <<"f">>],
               <<"f">> :> Body(Tout, srcs, ids))

\* The sequences of sources that differ from srcs at one position at most.
NearSources(arg_types, ret_types, srcs) ==
  {srcs} \cup
  {t \in {[srcs EXCEPT ![j] = c] :
            j \in 1..Len(ret_types), c \in ResourceArgs(arg_types) \cup {-1}} :
     \A j \in 1..Len(ret_types) :
       t[j] \in AllowedSources(arg_types, ret_types)[j]}

\* An If node: both branches take Tin and return Tout; the sources of their
\* return values differ at one position at most.
InitIf ==
  \E Tin \in SeqsOf(DataTypes, 0, MaxInputs - 1), Tout \in SeqsOf(DataTypes, 0, MaxRets) :
    \E then_srcs \in RetSources(Tin, Tout), ids \in 0..MaxIdentity :
      \E else_srcs \in NearSources(Tin, Tout, then_srcs) :
        InitWith("If",
                 [Tin |-> Tin, Tout |-> Tout,
                  then_branch |-> <<"then">>, else_branch |-> <<"else">>],
                 (<<"then">> :> Body(Tout, then_srcs, ids))
                 @@ (<<"else">> :> Body(Tout, else_srcs, ids)))

Init == InitWhile \/ InitCall \/ InitIf

\* The graph and the library the rewrite of n was entered with.
EntryGraph ==
  InitGraph(kind, Len(InputTypesOf(kind, entry.attrs)),
            Len(OutputTypesOf(kind, entry.attrs)))
EntryFld == LibraryOf(InputTypesOf(kind, entry.attrs), entry.bodies)

\* ---------------------------------------------------- MaybeRewriteWhileNode
Return(s) == pc' = "done" /\ status' = s

\* Lines 277-289.
WhileCheck ==
  /\ kind = "While" /\ pc = "start"
  /\ LET r == InputTypesNeedsRearrange(attrs.T, resource_input_count, index_mapping) IN
       /\ in_types' = attrs.T
       /\ input_need_rearrange' = r.need_rewrite
       /\ resource_input_count' = r.resource_input_count
       /\ index_mapping' = r.index_mapping
       /\ node_rewritten' = r.need_rewrite
       /\ IF ~r.need_rewrite THEN Return("OK")
          ELSE pc' = "while_node" /\ status' = status
  /\ UNCHANGED <<nodeVars, out_types, has_resource_output, funcVars, retVars>>
  /\ UNCHANGED <<passVars, input_edges_left, otherVars>>

\* Lines 291-300: the T attribute, the input edges and the output edges.
WhileRewriteNode ==
  /\ kind = "While" /\ pc = "while_node"
  /\ LET g1 == ReorderInputEdges(g, N, index_mapping)
         r == ReorderOutputEdges(g1, N, Len(in_types),
                                 ValueOf(resource_input_count), index_mapping)
     IN /\ attrs' = [attrs EXCEPT !.T = ShuffleInputDataTypeAttribute(in_types, index_mapping)]
        /\ g' = r.g
        /\ IF r.status # "OK" THEN Return(r.status) /\ attr_i' = attr_i
           ELSE pc' = "while_func" /\ status' = status /\ attr_i' = 1
  /\ UNCHANGED <<kind, fld, entry, node_rewritten, checkVars, f_name, fbody, retVars>>
  /\ UNCHANGED <<passVars, input_edges_left, otherVars>>

WhileAttrs == <<"cond", "body">>

\* Lines 304-361: the body of cond or body is instantiated, checked (body)
\* and its _Arg and _Retval nodes are renumbered.
WhileRewriteFunction ==
  /\ kind = "While" /\ pc = "while_func"
  /\ LET attr_name == WhileAttrs[attr_i]
         name == attrs[attr_name]
     IN /\ f_name' = name
        /\ IF name \notin DOMAIN fld
           THEN Return("Internal") /\ fbody' = fbody
           ELSE LET fb == FunctionDefToBodyHelper(fld[name])
                    check == IF attr_name = "body"
                             THEN WhileBodyCheck(fb.graph, fb.ret_nodes, 0)
                             ELSE "OK"
                    g1 == RearrangeArgNodes(fb.graph, fb.arg_nodes, index_mapping, 0)
                    g2 == IF attr_name = "body"
                          THEN WhileRearrangeRetvals(
                                 g1, fb.ret_nodes, index_mapping, Len(in_types),
                                 ValueOf(resource_input_count), 0)
                          ELSE g1
                IN IF check # "OK"
                   THEN Return(check) /\ fbody' = fb
                   ELSE /\ fbody' = [fb EXCEPT !.graph = g2]
                        /\ pc' = "while_save" /\ status' = status
  /\ UNCHANGED <<nodeVars, node_rewritten, checkVars, attr_i, retVars>>
  /\ UNCHANGED <<passVars, input_edges_left, otherVars>>

\* The saving without the registration: the new name is handed on although
\* the library does not hold it.
SaveFunctionDef_NoAdd(next_pc) ==
  /\ fld' = fld
  /\ pc' = next_pc /\ status' = status
  /\ f_name' = UniqueFunctionName(fld, StrCat(f_name, "_rearrange_"))

\* The saving of a rewritten body (lines 364-368, 445-449, 534-538): a fresh
\* name, the definition of the body graph under it, and its registration.
SaveFunctionDef(next_pc) ==
  LET new_name == UniqueFunctionName(fld, StrCat(f_name, "_rearrange_"))
      r == GraphToFunctionDef(fbody.graph, new_name)
      a == IF r.status = "OK" THEN AddFunctionDef(fld, r.fdef)
           ELSE [status |-> r.status, fld |-> fld]
  IN /\ fld' = a.fld
     /\ IF a.status # "OK" THEN Return(a.status) /\ f_name' = f_name
        ELSE pc' = next_pc /\ status' = status /\ f_name' = new_name

\* Lines 364-368.
WhileSave ==
  /\ kind = "While" /\ pc = "while_save"
  /\ SaveFunctionDef("while_repoint")
  /\ UNCHANGED <<kind, attrs, g, entry, node_rewritten, checkVars, attr_i, fbody, retVars>>
  /\ UNCHANGED <<passVars, input_edges_left, otherVars>>

\* Lines 371-373, and the loop's step to the next attribute; the body that
\* was instantiated goes out of scope.
WhileRepoint ==
  /\ kind = "While" /\ pc = "while_repoint"
  /\ attrs' = [attrs EXCEPT ![WhileAttrs[attr_i]] = f_name]
  /\ IF attr_i < Len(WhileAttrs)
     THEN attr_i' = attr_i + 1 /\ pc' = "while_func" /\ status' = status
     ELSE attr_i' = attr_i /\ Return("OK")
  /\ fbody' = NoBody
  /\ UNCHANGED <<kind, g, fld, entry, node_rewritten, checkVars, f_name, retVars>>
  /\ UNCHANGED <<passVars, input_edges_left, otherVars>>

\* ----------------------------------------------------- MaybeRewriteCallNode
\* A test of the first entry only.
HasResource_FirstOnly(types) == Len(types) > 0 /\ types[1] = DT_RESOURCE

\* Lines 392-393, 472-473: std::find of DT_RESOURCE in a type list.
HasResource(types) == \E j \in 1..Len(types) : types[j] = DT_RESOURCE

\* Lines 383-399.  Line 394 reads resource_input_count, which
\* InputTypesNeedsRearrange has written only when a rearrangement is needed.
CallCheck ==
  /\ kind = "StatefulPartitionedCall" /\ pc = "start"
  /\ LET r == InputTypesNeedsRearrange(attrs.Tin, resource_input_count, index_mapping) IN
       /\ in_types' = attrs.Tin
       /\ out_types' = attrs.Tout
       /\ input_need_rearrange' = r.need_rewrite
       /\ resource_input_count' = r.resource_input_count
       /\ index_mapping' = r.index_mapping
       /\ has_resource_output' = HasResource(attrs.Tout)
       /\ \E count \in r.resource_input_count :
            IF count = 0 /\ ~HasResource(attrs.Tout)
            THEN node_rewritten' = FALSE /\ Return("OK")
            ELSE node_rewritten' = TRUE /\ pc' = "call_in" /\ status' = status
  /\ UNCHANGED <<nodeVars, funcVars, retVars>>
  /\ UNCHANGED <<passVars, input_edges_left, otherVars>>

\* Lines 401-421: the body of f is instantiated; the input edges, Tin and the
\* body's _Arg nodes are rearranged.
CallRewriteInputs ==
  /\ kind = "StatefulPartitionedCall" /\ pc = "call_in"
  /\ f_name' = attrs.f
  /\ IF attrs.f \notin DOMAIN fld
     THEN Return("Internal") /\ UNCHANGED <<fbody, g, attrs>>
     ELSE LET fb == FunctionDefToBodyHelper(fld[attrs.f]) IN
          /\ pc' = "call_out" /\ status' = status
          /\ IF input_need_rearrange
             THEN /\ g' = ReorderInputEdges(g, N, index_mapping)
                  /\ attrs' = [attrs EXCEPT !.Tin =
                                 ShuffleInputDataTypeAttribute(in_types, index_mapping)]
                  /\ fbody' = [fb EXCEPT !.graph =
                                 RearrangeArgNodes(fb.graph, fb.arg_nodes, index_mapping, 0)]
             ELSE fbody' = fb /\ UNCHANGED <<g, attrs>>
  /\ UNCHANGED <<kind, fld, entry, node_rewritten, checkVars, attr_i, retVars>>
  /\ UNCHANGED <<passVars, input_edges_left, otherVars>>

\* Lines 423-442: the resource outputs are eliminated.
CallRewriteOutputs ==
  /\ kind = "StatefulPartitionedCall" /\ pc = "call_out"
  /\ IF ~has_resource_output
     THEN /\ pc' = "call_save" /\ status' = status
          /\ UNCHANGED <<attrs, g, fbody, retVars>>
     ELSE LET c == CalculateRetvalRearrange(fbody.graph, fbody.ret_nodes, 0,
                                            EmptyMap, EmptyMap)
              e == RearrangeOutputEdges(N, g, c.retval_index_mapping,
                                        c.resource_retval_to_arg, Len(in_types))
          IN /\ retval_index_mapping' = c.retval_index_mapping
             /\ resource_retval_to_arg' = c.resource_retval_to_arg
             /\ IF c.status # "OK"
                THEN Return(c.status) /\ UNCHANGED <<attrs, g, fbody>>
                ELSE IF e.status # "OK"
                THEN Return(e.status) /\ g' = e.g /\ UNCHANGED <<attrs, fbody>>
                ELSE /\ g' = e.g
                     /\ attrs' = [attrs EXCEPT !.Tout =
                                    ShuffleOutputDataTypeAttribute(
                                      out_types, c.retval_index_mapping)]
                     /\ fbody' = [fbody EXCEPT !.graph =
                                    RearrangeRetvalNodes(
                                      fbody.ret_nodes, fbody.graph,
                                      c.retval_index_mapping, 0)]
                     /\ pc' = "call_save" /\ status' = status
  /\ UNCHANGED <<kind, fld, entry, node_rewritten, checkVars, attr_i, f_name>>
  /\ UNCHANGED <<passVars, input_edges_left, otherVars>>

\* Lines 445-449.
CallSave ==
  /\ kind = "StatefulPartitionedCall" /\ pc = "call_save"
  /\ SaveFunctionDef("call_repoint")
  /\ UNCHANGED <<kind, attrs, g, entry, node_rewritten, checkVars, attr_i, fbody, retVars>>
  /\ UNCHANGED <<passVars, input_edges_left, otherVars>>

\* Lines 452-455.
CallRepoint ==
  /\ kind = "StatefulPartitionedCall" /\ pc = "call_repoint"
  /\ attrs' = [attrs EXCEPT !.f = f_name]
  /\ fbody' = NoBody
  /\ Return("OK")
  /\ UNCHANGED <<kind, g, fld, entry, node_rewritten, checkVars, attr_i, f_name, retVars>>
  /\ UNCHANGED <<passVars, input_edges_left, otherVars>>

\* ------------------------------------------------------- MaybeRewriteIfNode
\* The loop without the "+ 1" of line 494: an argument edge may land on the
\* predicate's slot.
RECURSIVE IfReorderInputEdgesLoop_NoOffset(_, _, _, _)
IfReorderInputEdgesLoop_NoOffset(g0, n, input_edges, mapping) ==
  IF input_edges = {} THEN g0
  ELSE LET h == MinOf(input_edges)
           e == g0[h]
           new_dst_input == mapping[e.dst_input - 1 + 1]
       IN IfReorderInputEdgesLoop_NoOffset(
            AddEdge(RemoveEdge(g0, h), e.src, e.src_output, n, new_dst_input),
            n, input_edges \ {h}, mapping)

\* Lines 490-497.
RECURSIVE IfReorderInputEdgesLoop(_, _, _, _)
IfReorderInputEdgesLoop(g0, n, input_edges, mapping) ==
  IF input_edges = {} THEN g0
  ELSE LET h == MinOf(input_edges)
           e == g0[h]
           new_dst_input == mapping[e.dst_input - 1 + 1] + 1
       IN IfReorderInputEdgesLoop(
            AddEdge(RemoveEdge(g0, h), e.src, e.src_output, n, new_dst_input),
            n, input_edges \ {h}, mapping)

\* Lines 483-497: the snapshot leaves out the control edges and the edge into
\* slot 0.
IfReorderInputEdges(g0, n, mapping) ==
  IfReorderInputEdgesLoop(
    g0, n,
    {h \in in_edges(g0, n) : ~(IsControlEdge(g0[h]) \/ g0[h].dst_input = 0)},
    mapping)

\* Lines 463-479.
IfCheck ==
  /\ kind = "If" /\ pc = "start"
  /\ LET r == InputTypesNeedsRearrange(attrs.Tin, resource_input_count, index_mapping) IN
       /\ in_types' = attrs.Tin
       /\ out_types' = attrs.Tout
       /\ input_need_rearrange' = r.need_rewrite
       /\ resource_input_count' = r.resource_input_count
       /\ index_mapping' = r.index_mapping
       /\ has_resource_output' = HasResource(attrs.Tout)
       /\ IF ~r.need_rewrite /\ ~HasResource(attrs.Tout)
          THEN node_rewritten' = FALSE /\ Return("OK")
          ELSE node_rewritten' = TRUE /\ pc' = "if_in" /\ status' = status
  /\ UNCHANGED <<nodeVars, funcVars, retVars>>
  /\ UNCHANGED <<passVars, input_edges_left, otherVars>>

\* Lines 481-506.
IfRewriteInputs ==
  /\ kind = "If" /\ pc = "if_in"
  /\ IF input_need_rearrange
     THEN /\ g' = IfReorderInputEdges(g, N, index_mapping)
          /\ attrs' = [attrs EXCEPT !.Tin =
                         ShuffleInputDataTypeAttribute(in_types, index_mapping)]
     ELSE UNCHANGED <<g, attrs>>
  /\ retval_index_mapping' = EmptyMap
  /\ resource_retval_to_arg' = EmptyMap
  /\ attr_i' = 1
  /\ pc' = "if_func"
  /\ UNCHANGED <<kind, fld, entry, status, node_rewritten, checkVars, f_name, fbody>>
  /\ UNCHANGED <<passVars, input_edges_left, otherVars>>

IfAttrs == <<"then_branch", "else_branch">>

\* Lines 509-531: a branch is instantiated and its _Arg and _Retval nodes are
\* renumbered; the two maps are shared by both branches.
IfRewriteFunction ==
  /\ kind = "If" /\ pc = "if_func"
  /\ LET name == attrs[IfAttrs[attr_i]] IN
       /\ f_name' = name
       /\ IF name \notin DOMAIN fld
          THEN Return("Internal") /\ UNCHANGED <<fbody, retVars>>
          ELSE LET fb == FunctionDefToBodyHelper(fld[name])
                   g1 == IF input_need_rearrange
                         THEN RearrangeArgNodes(fb.graph, fb.arg_nodes, index_mapping, 0)
                         ELSE fb.graph
                   c == IF has_resource_output
                        THEN CalculateRetvalRearrange(
                               g1, fb.ret_nodes, 0, retval_index_mapping,
                               resource_retval_to_arg)
                        ELSE [status |-> "OK",
                              retval_index_mapping |-> retval_index_mapping,
                              resource_retval_to_arg |-> resource_retval_to_arg]
               IN /\ retval_index_mapping' = c.retval_index_mapping
                  /\ resource_retval_to_arg' = c.resource_retval_to_arg
                  /\ IF c.status # "OK"
                     THEN Return(c.status) /\ fbody' = [fb EXCEPT !.graph = g1]
                     ELSE /\ fbody' =
                               [fb EXCEPT !.graph =
                                  IF has_resource_output
                                  THEN RearrangeRetvalNodes(
                                         fb.ret_nodes, g1, c.retval_index_mapping, 0)
                                  ELSE g1]
                          /\ pc' = "if_save" /\ status' = status
  /\ UNCHANGED <<nodeVars, node_rewritten, checkVars, attr_i>>
  /\ UNCHANGED <<passVars, input_edges_left, otherVars>>

\* Lines 534-538.
IfSave ==
  /\ kind = "If" /\ pc = "if_save"
  /\ SaveFunctionDef("if_repoint")
  /\ UNCHANGED <<kind, attrs, g, entry, node_rewritten, checkVars, attr_i, fbody, retVars>>
  /\ UNCHANGED <<passVars, input_edges_left, otherVars>>

\* Lines 541-543, and the loop's step to the next branch.
IfRepoint ==
  /\ kind = "If" /\ pc = "if_repoint"
  /\ attrs' = [attrs EXCEPT ![IfAttrs[attr_i]] = f_name]
  /\ IF attr_i < Len(IfAttrs)
     THEN attr_i' = attr_i + 1 /\ pc' = "if_func"
     ELSE attr_i' = attr_i /\ pc' = "if_out"
  /\ fbody' = NoBody
  /\ UNCHANGED <<kind, g, fld, entry, status, node_rewritten, checkVars, f_name, retVars>>
  /\ UNCHANGED <<passVars, input_edges_left, otherVars>>

\* Lines 546-579.
IfRewriteOutputs ==
  /\ kind = "If" /\ pc = "if_out"
  /\ IF ~has_resource_output
     THEN Return("OK") /\ UNCHANGED <<attrs, g>>
     ELSE LET e == RearrangeOutputEdgesLoop(
                     g, N, {h \in out_edges(g, N) : ~IsControlEdge(g[h])},
                     retval_index_mapping, resource_retval_to_arg, 1,
                     Len(in_types) + 1)
          IN /\ g' = e.g
             /\ IF e.status # "OK" THEN Return(e.status) /\ attrs' = attrs
                ELSE /\ attrs' = [attrs EXCEPT !.Tout =
                                    ShuffleOutputDataTypeAttribute(
                                      out_types, retval_index_mapping)]
                     /\ Return("OK")
  /\ UNCHANGED <<kind, fld, entry, node_rewritten, checkVars, funcVars, retVars>>
  /\ UNCHANGED <<passVars, input_edges_left, otherVars>>

\* ---------------------------------------------------------- specification
Next ==
  \/ WhileCheck
  \/ WhileRewriteNode
  \/ WhileRewriteFunction
  \/ WhileSave
  \/ WhileRepoint
  \/ CallCheck
  \/ CallRewriteInputs
  \/ CallRewriteOutputs
  \/ CallSave
  \/ CallRepoint
  \/ IfCheck
  \/ IfRewriteInputs
  \/ IfRewriteFunction
  \/ IfSave
  \/ IfRepoint
  \/ IfRewriteOutputs

Spec == Init /\ [][Next]_vars

\* ------------------------------------- InputTypesNeedsRearrange on its own
\* The function applied to every type list up to MaxTypes long, and
\* ShuffleInputDataTypeAttribute applied to what it returns, as lines 282-295
\* apply them to the "T" attribute.
InitTypes ==
  \E T \in SeqsOf(DataTypes, 0, MaxTypes) :
    /\ kind = "Types"
    /\ attrs = [T |-> T]
    /\ g = <<>>
    /\ fld = <<>>
    /\ entry = [attrs |-> [T |-> T], bodies |-> <<>>]
    /\ pc = "start"
    /\ status = "OK"
    /\ node_rewritten = FALSE
    /\ in_types = <<>>
    /\ out_types = <<>>
    /\ input_need_rearrange = FALSE
    /\ resource_input_count = IndeterminateInt
    /\ index_mapping = <<>>
    /\ has_resource_output = FALSE
    /\ attr_i = 0
    /\ f_name = <<>>
    /\ fbody = NoBody
    /\ retval_index_mapping = EmptyMap
    /\ resource_retval_to_arg = EmptyMap
    /\ NoPass
    /\ NoOther

\* Lines 277-287.
TypesCheck ==
  /\ kind = "Types" /\ pc = "start"
  /\ LET r == InputTypesNeedsRearrange(attrs.T, resource_input_count, index_mapping) IN
       /\ in_types' = attrs.T
       /\ input_need_rearrange' = r.need_rewrite
       /\ resource_input_count' = r.resource_input_count
       /\ index_mapping' = r.index_mapping
       /\ node_rewritten' = r.need_rewrite
       /\ IF ~r.need_rewrite THEN Return("OK")
          ELSE pc' = "types_shuffle" /\ status' = status
  /\ UNCHANGED <<nodeVars, out_types, has_resource_output, funcVars, retVars>>
  /\ UNCHANGED <<passVars, input_edges_left, otherVars>>

\* Lines 291-295.
TypesShuffle ==
  /\ kind = "Types" /\ pc = "types_shuffle"
  /\ attrs' = [attrs EXCEPT !.T = ShuffleInputDataTypeAttribute(in_types, index_mapping)]
  /\ Return("OK")
  /\ UNCHANGED <<kind, g, fld, entry, node_rewritten, checkVars, funcVars, retVars>>
  /\ UNCHANGED <<passVars, input_edges_left, otherVars>>

NextTypes ==
  \/ TypesCheck
  \/ TypesShuffle

SpecTypes == InitTypes /\ [][NextTypes]_vars

\* ------------------------- RearrangeFunctionArgumentForFunction and Run
\* A call-like node of a function body: its op and its attributes (type
\* lists and function names).
CallLikeNode(op, a) ==
  [op |-> op, T |-> DT_INVALID, index |-> -1, in0 |-> NoNode, attrs |-> a]

\* Canonicalize: the name of a function together with its attributes.
Canonicalize(name, a) == <<name, a>>
NoAttrs == <<>>

\* The attributes of a node that name functions.
FunctionAttrs(op) ==
  IF op = "While" THEN WhileAttrs
  ELSE IF op = "If" THEN IfAttrs
  ELSE IF op = "StatefulPartitionedCall" THEN <<"f">>
  ELSE <<>>

\* GetAssociatedFunctions: one entry per function attribute of the node.
GetAssociatedFunctions(node) ==
  [k \in 1..Len(FunctionAttrs(node.op)) |->
     [attr |-> FunctionAttrs(node.op)[k],
      func_name |-> node.attrs[FunctionAttrs(node.op)[k]],
      attrs |-> NoAttrs]]

\* RewriteAssociatedFunction for a function attribute: the attribute names
\* the rewritten function.
RewriteAssociatedFunction(graph, n, associated_function, rewritten_function_name) ==
  [graph EXCEPT ![n].attrs[associated_function.attr] = rewritten_function_name]

\* g->nodes(): the nodes of a body that have function attributes, in the
\* order of their ids.
NodesOf(graph) ==
  LET S == {x \in DOMAIN graph : FunctionAttrs(graph[x].op) # <<>>}
  IN [k \in 1..Cardinality(S) |-> <<"call", k>>]

\* Lines 609-616: the associated functions of every node, gathered before
\* any node is rewritten.
RECURSIVE NodesToAssociatedFunctions(_, _, _)
NodesToAssociatedFunctions(graph, nodes, i) ==
  IF i > Len(nodes) THEN <<>>
  ELSE LET afs == GetAssociatedFunctions(graph[nodes[i]])
       IN [k \in 1..Len(afs) |-> [n |-> nodes[i]] @@ afs[k]]
          \o NodesToAssociatedFunctions(graph, nodes, i + 1)

\* Lines 590-616: an activation of RearrangeFunctionArgumentForFunction
\* after flr->Instantiate and the gathering of the associated functions.
Activation(func_name, new_func_name, lib) ==
  LET found == func_name \in DOMAIN lib
      graph0 == IF found THEN FunctionDefToBodyHelper(lib[func_name]).graph ELSE <<>>
  IN [func_name |-> func_name,
      new_func_name |-> new_func_name,
      g |-> graph0,
      nodes_to_associated_functions |->
        NodesToAssociatedFunctions(graph0, NodesOf(graph0), 1),
      nodes |-> NodesOf(graph0),
      new_name |-> <<>>,
      modified |-> FALSE,
      pc |-> IF found THEN "associated" ELSE "return",
      ret_status |-> IF found THEN "OK" ELSE "NotFound"]

Top == frames[Len(frames)]
SetTop(frame) == [frames EXCEPT ![Len(frames)] = frame]

\* FunctionLibraryDefinition::ReplaceFunction.
ReplaceFunction(lib, name, fdef) ==
  IF name \notin DOMAIN lib
  THEN [status |-> "InvalidArgument", fld |-> lib]
  ELSE [status |-> "OK", fld |-> [lib EXCEPT ![name] = fdef]]

\* The functions a definition's nodes name.
References(fdef) ==
  UNION {{fdef.node_def[x].attrs[FunctionAttrs(fdef.node_def[x].op)[k]] :
            k \in 1..Len(FunctionAttrs(fdef.node_def[x].op))} :
         x \in DOMAIN fdef.node_def}

RECURSIVE ReachableDefinitions(_, _)
ReachableDefinitions(lib, names) ==
  LET more == names \cup UNION {References(lib[nm]) : nm \in names \cap DOMAIN lib}
  IN IF more = names THEN names ELSE ReachableDefinitions(lib, more)

\* Lines 728-734.
kNodeTypeToFunctionAttrMapping ==
  [TPUReplicate |-> "computation", XlaLaunch |-> "function"]

\* PruneUnreachableFunctionsFromGraph: the library keeps the definitions
\* that the graph's nodes reach.
PruneUnreachableFunctionsFromGraph(graph0, lib) ==
  LET roots == {graph0[i].attrs[kNodeTypeToFunctionAttrMapping[graph0[i].type_string]] :
                  i \in {i \in DOMAIN graph0 :
                           graph0[i].type_string \in DOMAIN kNodeTypeToFunctionAttrMapping}}
  IN [nm \in DOMAIN lib \cap ReachableDefinitions(lib, roots) |-> lib[nm]]

\* The locals of MaybeRewrite*Node when it is entered for a node of type k
\* with attributes a and edges g0, and when no node is under rewrite.
NodeLocals(k, a, g0, p) ==
  /\ kind' = k
  /\ attrs' = a
  /\ g' = g0
  /\ pc' = p
  /\ status' = "OK"
  /\ node_rewritten' = FALSE
  /\ in_types' = <<>>
  /\ out_types' = <<>>
  /\ input_need_rearrange' = FALSE
  /\ resource_input_count' = IndeterminateInt
  /\ index_mapping' = <<>>
  /\ has_resource_output' = FALSE
  /\ attr_i' = 0
  /\ f_name' = <<>>
  /\ fbody' = NoBody
  /\ retval_index_mapping' = EmptyMap
  /\ resource_retval_to_arg' = EmptyMap
  /\ input_edges_left' = {}
  /\ UNCHANGED otherVars
nodeLocals == <<kind, attrs, g, ctlVars, checkVars, funcVars, retVars, input_edges_left,
                otherVars>>

\* Lines 713-736: Run is entered; the map and fld_modified are its locals.
RunStart ==
  /\ run.pc = "start"
  /\ run' = [pc |-> "loop", n |-> 1, new_func_name |-> <<>>, status |-> "OK"]
  /\ canonicalized_name_to_new_name' = EmptyMap
  /\ fld_modified' = FALSE
  /\ UNCHANGED <<fld, entry, nodeLocals, options_graph, frames>>

\* Lines 737-752: the next node of the graph; a compile node's function is
\* handed to RearrangeFunctionArgumentForFunction under a fresh name.
RunCall ==
  /\ run.pc = "loop" /\ run.n <= Len(options_graph)
  /\ LET n == options_graph[run.n] IN
       IF n.type_string \notin DOMAIN kNodeTypeToFunctionAttrMapping
       THEN run' = [run EXCEPT !.n = @ + 1] /\ frames' = frames
       ELSE LET func == n.attrs[kNodeTypeToFunctionAttrMapping[n.type_string]]
                new_func_name == UniqueFunctionName(fld, StrCat(func, "_rearrange_"))
            IN /\ run' = [run EXCEPT !.pc = "call", !.new_func_name = new_func_name]
               /\ frames' = <<Activation(func, new_func_name, fld)>>
  /\ UNCHANGED <<fld, entry, nodeLocals, options_graph,
                 canonicalized_name_to_new_name, fld_modified>>

\* Lines 660-669 and the step to the next associated function: entry is the
\* map's entry for the function, empty when it was not rewritten.
AfterAssociatedFunction(frame, map_entry) ==
  LET af == Head(frame.nodes_to_associated_functions)
      function_modified == map_entry # {}
  IN [frame EXCEPT
        !.modified = @ \/ function_modified,
        !.g = IF function_modified
              THEN RewriteAssociatedFunction(@, af.n, af, ValueOf(map_entry))
              ELSE @,
        !.nodes_to_associated_functions = Tail(@),
        !.pc = "associated"]

\* Lines 620-634, 660-669: the function was processed before.
AssociatedFunctionProcessed ==
  /\ frames # <<>> /\ Top.pc = "associated"
  /\ Top.nodes_to_associated_functions # <<>>
  /\ LET af == Head(Top.nodes_to_associated_functions)
         canonicalized_name == Canonicalize(af.func_name, af.attrs)
     IN /\ canonicalized_name \in DOMAIN canonicalized_name_to_new_name
        /\ frames' = SetTop(AfterAssociatedFunction(
                              Top, canonicalized_name_to_new_name[canonicalized_name]))
  /\ UNCHANGED <<fld, entry, nodeLocals, options_graph, run,
                 canonicalized_name_to_new_name, fld_modified>>

\* Lines 620-647: the function was not processed before; its new name is
\* chosen and RearrangeFunctionArgumentForFunction is entered for it.
AssociatedFunctionCall ==
  /\ frames # <<>> /\ Top.pc = "associated"
  /\ Top.nodes_to_associated_functions # <<>>
  /\ Len(frames) < MaxDepth
  /\ LET af == Head(Top.nodes_to_associated_functions)
         new_name == UniqueFunctionName(fld, StrCat(af.func_name, "_rearrange_"))
     IN /\ Canonicalize(af.func_name, af.attrs) \notin
             DOMAIN canonicalized_name_to_new_name
        /\ frames' = Append(SetTop([Top EXCEPT !.pc = "call", !.new_name = new_name]),
                            Activation(af.func_name, new_name, fld))
  /\ UNCHANGED <<fld, entry, nodeLocals, options_graph, run,
                 canonicalized_name_to_new_name, fld_modified>>

\* Lines 645-669: the call returns; an error is returned at once, otherwise
\* the outcome is recorded under the canonicalized name.
AssociatedFunctionReturn ==
  /\ Len(frames) >= 2 /\ Top.pc = "return"
  /\ LET caller == frames[Len(frames) - 1]
         af == Head(caller.nodes_to_associated_functions)
         map_entry == IF Top.modified THEN {caller.new_name} ELSE {}
         rest == SubSeq(frames, 1, Len(frames) - 2)
     IN IF Top.ret_status # "OK"
        THEN /\ frames' = Append(rest, [caller EXCEPT !.pc = "return",
                                                      !.ret_status = Top.ret_status])
             /\ UNCHANGED canonicalized_name_to_new_name
        ELSE /\ canonicalized_name_to_new_name' =
                  (Canonicalize(af.func_name, af.attrs) :> map_entry)
                  @@ canonicalized_name_to_new_name
             /\ frames' = Append(rest, AfterAssociatedFunction(caller, map_entry))
  /\ UNCHANGED <<fld, entry, nodeLocals, options_graph, run, fld_modified>>

\* Lines 673-693: MaybeRewrite*Node is entered for the next node.
RewriteNode ==
  /\ frames # <<>> /\ Top.pc = "associated"
  /\ Top.nodes_to_associated_functions = <<>> /\ Top.nodes # <<>>
  /\ LET n == Top.g[Head(Top.nodes)] IN
       NodeLocals(n.op, n.attrs,
                  InitGraph(n.op, Len(InputTypesOf(n.op, n.attrs)),
                            Len(OutputTypesOf(n.op, n.attrs))),
                  "start")
  /\ frames' = SetTop([Top EXCEPT !.pc = "node"])
  /\ UNCHANGED <<fld, entry, options_graph, run,
                 canonicalized_name_to_new_name, fld_modified>>

\* Lines 676-679, 682-685, 688-691: MaybeRewrite*Node returns.
RewriteNodeReturn ==
  /\ frames # <<>> /\ Top.pc = "node" /\ pc = "done"
  /\ frames' = SetTop(IF status # "OK"
                      THEN [Top EXCEPT !.pc = "return", !.ret_status = status]
                      ELSE [Top EXCEPT !.g[Head(Top.nodes)].attrs = attrs,
                                       !.modified = @ \/ node_rewritten,
                                       !.nodes = Tail(@),
                                       !.pc = "associated"])
  /\ NodeLocals("None", <<>>, <<>>, "idle")
  /\ UNCHANGED <<fld, entry, options_graph, run,
                 canonicalized_name_to_new_name, fld_modified>>

\* The rewritten definition replaces the one under func_name whatever the
\* new name is.
AddOrReplaceFunction_Replace(lib, func_name, new_func_name, fdef) ==
  ReplaceFunction(lib, func_name, [fdef EXCEPT !.name = func_name])

\* Lines 700-707.
AddOrReplaceFunction(lib, func_name, new_func_name, fdef) ==
  IF func_name = new_func_name
  THEN ReplaceFunction(lib, new_func_name, fdef)
  ELSE AddFunctionDef(lib, fdef)

\* Lines 695-710.
SaveFunction ==
  /\ frames # <<>> /\ Top.pc = "associated"
  /\ Top.nodes_to_associated_functions = <<>> /\ Top.nodes = <<>>
  /\ IF ~Top.modified
     THEN fld' = fld /\ frames' = SetTop([Top EXCEPT !.pc = "return"])
     ELSE LET r == GraphToFunctionDef(Top.g, Top.new_func_name)
              a == IF r.status # "OK" THEN [status |-> r.status, fld |-> fld]
                   ELSE AddOrReplaceFunction(fld, Top.func_name, Top.new_func_name,
                                             r.fdef)
          IN /\ fld' = a.fld
             /\ frames' = SetTop([Top EXCEPT !.pc = "return", !.ret_status = a.status])
  /\ UNCHANGED <<entry, nodeLocals, options_graph, run,
                 canonicalized_name_to_new_name, fld_modified>>

\* The node names a function next to the new one.
SetFunction_Stale(graph0, i, new_func_name) ==
  [graph0 EXCEPT ![i].attrs[kNodeTypeToFunctionAttrMapping[graph0[i].type_string]] =
                   StrCat(new_func_name, "_")]

\* Lines 754-756: the compile node names the new function.
SetFunction(graph0, i, new_func_name) ==
  [graph0 EXCEPT ![i].attrs[kNodeTypeToFunctionAttrMapping[graph0[i].type_string]] =
                   new_func_name]

\* Lines 750-759: the call of line 750 returns.
RunReturn ==
  /\ run.pc = "call" /\ Len(frames) = 1 /\ Top.pc = "return"
  /\ frames' = <<>>
  /\ IF Top.ret_status # "OK"
     THEN /\ run' = [run EXCEPT !.pc = "done", !.status = Top.ret_status]
          /\ UNCHANGED <<options_graph, fld_modified>>
     ELSE /\ run' = [run EXCEPT !.pc = "loop", !.n = @ + 1]
          /\ fld_modified' = (fld_modified \/ Top.modified)
          /\ options_graph' =
               IF Top.modified
               THEN SetFunction(options_graph, run.n, run.new_func_name)
               ELSE options_graph
  /\ UNCHANGED <<fld, entry, nodeLocals, canonicalized_name_to_new_name>>

\* Lines 761-770.
RunFinish ==
  /\ run.pc = "loop" /\ run.n > Len(options_graph)
  /\ fld' = IF fld_modified
            THEN PruneUnreachableFunctionsFromGraph(options_graph, fld)
            ELSE fld
  /\ run' = [run EXCEPT !.pc = "done", !.status = "OK"]
  /\ UNCHANGED <<entry, nodeLocals, options_graph, frames,
                 canonicalized_name_to_new_name, fld_modified>>

\* ------------------------------------------------- the pass: initial states
\* A definition without arguments and return values whose body holds the
\* given call-like nodes.
MakeCaller(name, nodes) ==
  [name |-> name, arg |-> <<>>, ret |-> <<>>,
   node_def |-> [x \in {<<"call", k>> : k \in 1..Len(nodes)} |-> nodes[x[2]]]]

\* The sources of a While body's return values: every resource from the
\* argument at its position, or every value from an op of the body.
Aligned(T) == [j \in 1..Len(T) |-> IF T[j] = DT_RESOURCE THEN j - 1 ELSE -1]
Unaligned(T) == [j \in 1..Len(T) |-> -1]

\* How the library is entered: by Run over c compile nodes that name f, whose
\* body holds k calls of g, behind a compile node that names e when first
\* holds; or by RearrangeFunctionArgumentForFunction for g under a new name
\* equal to or different from g.
Entries ==
  {[c |-> p[1], k |-> p[2], first |-> FALSE, new_func_name |-> <<>>] :
     p \in {p \in (1..MaxSites) \X (1..MaxSites) : p[1] + p[2] <= MaxSites + 1}}
  \cup {[c |-> 1, k |-> 1, first |-> TRUE, new_func_name |-> <<>>]}
  \cup {[c |-> 0, k |-> 1, first |-> FALSE, new_func_name |-> nm] :
          nm \in {<<"g">>, <<"g", "_rearrange_", "0">>}}

\* e, whose body calls k with a resource in front of a float, and k.
FirstFunctions ==
  (<<"e">> :> MakeCaller(<<"e">>,
                <<CallLikeNode("StatefulPartitionedCall",
                               [Tin |-> <<DT_RESOURCE, DT_FLOAT>>,
                                Tout |-> <<DT_FLOAT>>, f |-> <<"k">>])>>))
  @@ (<<"k">> :> MakeFunctionDef(<<"k">>, <<DT_RESOURCE, DT_FLOAT>>, <<DT_FLOAT>>,
                                 <<-1>>, 0))

\* The library holds f, g, whose body holds node, and the functions that
\* node names.
InitPassWith(node, leaves, e) ==
  LET lib == leaves
             @@ (<<"g">> :> MakeCaller(<<"g">>, <<node>>))
             @@ (<<"f">> :> MakeCaller(<<"f">>,
                   [i \in 1..e.k |->
                      CallLikeNode("StatefulPartitionedCall",
                                   [Tin |-> <<>>, Tout |-> <<>>, f |-> <<"g">>])]))
             @@ (IF e.first THEN FirstFunctions ELSE <<>>)
      compile == [i \in 1..e.c |->
                    IF i % 2 = 1
                    THEN [type_string |-> "XlaLaunch", attrs |-> [function |-> <<"f">>]]
                    ELSE [type_string |-> "TPUReplicate",
                          attrs |-> [computation |-> <<"f">>]]]
      graph0 == IF e.c = 0 THEN <<>>
                ELSE (IF e.first
                      THEN <<[type_string |-> "XlaLaunch",
                              attrs |-> [function |-> <<"e">>]]>>
                      ELSE <<>>)
                     \o Append(compile, [type_string |-> "NoOp", attrs |-> <<>>])
  IN /\ kind = "None"
     /\ attrs = <<>>
     /\ g = <<>>
     /\ fld = lib
     /\ entry = [graph |-> graph0, fld |-> lib]
     /\ pc = "idle"
     /\ status = "OK"
     /\ node_rewritten = FALSE
     /\ in_types = <<>>
     /\ out_types = <<>>
     /\ input_need_rearrange = FALSE
     /\ resource_input_count = IndeterminateInt
     /\ index_mapping = <<>>
     /\ has_resource_output = FALSE
     /\ attr_i = 0
     /\ f_name = <<>>
     /\ fbody = NoBody
     /\ retval_index_mapping = EmptyMap
     /\ resource_retval_to_arg = EmptyMap
     /\ options_graph = graph0
     /\ run = [NoRun EXCEPT !.pc = IF e.c = 0 THEN "direct" ELSE "start"]
     /\ canonicalized_name_to_new_name = EmptyMap
     /\ fld_modified = FALSE
     /\ frames = IF e.c = 0 THEN <<Activation(<<"g">>, e.new_func_name, lib)>>
                 ELSE <<>>
     /\ input_edges_left = {}
     /\ NoOther

\* The node of g is a StatefulPartitionedCall or an If node over h.
InitPassCall ==
  \E T \in SeqsOf(DataTypes, 1, MaxPassInputs), Tout \in SeqsOf(DataTypes, 1, 1) :
    \E srcs \in RetSources(T, Tout), e \in Entries :
      \/ InitPassWith(
           CallLikeNode("StatefulPartitionedCall",
                        [Tin |-> T, Tout |-> Tout, f |-> <<"h">>]),
           <<"h">> :> MakeFunctionDef(<<"h">>, T, Tout, srcs, 0), e)
      \/ InitPassWith(
           CallLikeNode("If", [Tin |-> T, Tout |-> Tout,
                               then_branch |-> <<"h">>, else_branch |-> <<"h">>]),
           <<"h">> :> MakeFunctionDef(<<"h">>, T, Tout, srcs, 0), e)

\* The node of g is a While node over cond and body.
InitPassWhile ==
  \E T \in SeqsOf(DataTypes, 1, MaxPassInputs), e \in Entries :
    \E srcs \in {Aligned(T), Unaligned(T)} :
      InitPassWith(
        CallLikeNode("While", [T |-> T, cond |-> <<"cond">>, body |-> <<"body">>]),
        (<<"cond">> :> MakeFunctionDef(<<"cond">>, T, <<DT_BOOL>>, <<-1>>, 0))
        @@ (<<"body">> :> MakeFunctionDef(<<"body">>, T, T, srcs, 0)), e)

\* The node of g calls g itself, or f, which calls g.
InitPassCycle ==
  \E callee \in {<<"f">>, <<"g">>}, e \in Entries :
    InitPassWith(
      CallLikeNode("StatefulPartitionedCall",
                   [Tin |-> <<>>, Tout |-> <<>>, f |-> callee]),
      <<>>, e)

InitPass == InitPassCall \/ InitPassWhile \/ InitPassCycle

NextPass ==
  \/ RunStart
  \/ RunCall
  \/ AssociatedFunctionProcessed
  \/ AssociatedFunctionCall
  \/ AssociatedFunctionReturn
  \/ RewriteNode
  \/ RewriteNodeReturn
  \/ SaveFunction
  \/ RunReturn
  \/ RunFinish
  \/ Next

SpecPass == InitPass /\ [][NextPass]_vars

\* ------------------------------------ the input reordering edge by edge
\* A While or an If node whose inputs need rearranging.
InitEdges ==
  \E T \in SeqsOf(DataTypes, 0, MaxTypes) :
    /\ InputTypesNeedsRearrange(T, IndeterminateInt, <<>>).need_rewrite
    /\ \/ InitWith("While", [T |-> T, cond |-> <<"cond">>, body |-> <<"body">>],
                   (<<"cond">> :> Body(<<DT_BOOL>>, <<-1>>, 0))
                   @@ (<<"body">> :> Body(T, Aligned(T), 0)))
       \/ InitWith("If", [Tin |-> T, Tout |-> <<>>,
                          then_branch |-> <<"then">>, else_branch |-> <<"else">>],
                   (<<"then">> :> Body(<<>>, <<>>, 0))
                   @@ (<<"else">> :> Body(<<>>, <<>>, 0)))

\* Lines 110-115, 485-491: the snapshot of the edges to move, taken with the
\* mapping of lines 282-287, 464-470.
ReorderSnapshot ==
  /\ pc = "start"
  /\ LET types == InputTypesOf(kind, attrs)
         r == InputTypesNeedsRearrange(types, resource_input_count, index_mapping)
     IN /\ in_types' = types
        /\ input_need_rearrange' = r.need_rewrite
        /\ resource_input_count' = r.resource_input_count
        /\ index_mapping' = r.index_mapping
  /\ input_edges_left' =
       {h \in in_edges(g, N) :
          ~(IsControlEdge(g[h]) \/ (kind = "If" /\ g[h].dst_input = 0))}
  /\ pc' = "reorder"
  /\ UNCHANGED <<nodeVars, status, node_rewritten, out_types, has_resource_output,
                 funcVars, retVars, passVars, otherVars>>

\* Lines 116-123, 492-497: one turn of the loop moves one edge.
ReorderEdge ==
  /\ pc = "reorder" /\ input_edges_left # {}
  /\ LET h == MinOf(input_edges_left) IN
       /\ g' = IF kind = "If"
               THEN IfReorderInputEdgesLoop(g, N, {h}, index_mapping)
               ELSE ReorderInputEdgesLoop(g, N, {h}, index_mapping)
       /\ input_edges_left' = input_edges_left \ {h}
       /\ pc' = IF input_edges_left = {h} THEN "reordered" ELSE "reorder"
  /\ UNCHANGED <<kind, attrs, fld, entry, status, node_rewritten, checkVars,
                 funcVars, retVars, passVars, otherVars>>

NextEdges ==
  \/ ReorderSnapshot
  \/ ReorderEdge

SpecEdges == InitEdges /\ [][NextEdges]_vars

\* ============================================================== properties
\* Counting helpers of the properties; positions are 0-based.
Positions(types) == 0..(Len(types) - 1)
IsResourceAt(types, i) == types[i + 1] = DT_RESOURCE
NonResourcesBefore(types, i) ==
  Cardinality({k \in 0..(i - 1) : ~IsResourceAt(types, k)})
ResourcesBefore(types, i) ==
  Cardinality({k \in 0..(i - 1) : IsResourceAt(types, k)})
ResourceCount(types) == Cardinality({k \in Positions(types) : IsResourceAt(types, k)})

\* InputTypesNeedsRearrange has returned need_rewrite = true for in_types.
Rearranged == pc # "start" /\ input_need_rearrange

\* C1: whenever InputTypesNeedsRearrange sets need_rewrite, the mapping it
\* returns is the stable two-pointer assignment: a non-resource position i
\* maps to the number of non-resources before i, a resource position i to
\* (n - resourceCount) + the number of resources before i.
C1_StableTwoPointerMapping ==
  Rearranged =>
    /\ Len(index_mapping) = Len(in_types)
    /\ \A i \in Positions(in_types) :
         index_mapping[i + 1] =
           IF ~IsResourceAt(in_types, i)
           THEN NonResourcesBefore(in_types, i)
           ELSE (Len(in_types) - ResourceCount(in_types))
                + ResourcesBefore(in_types, i)

\* C1 witness: [float, resource, float, resource] got {0->0, 1->2, 2->1, 3->3}.
C1_Witness ==
  /\ Rearranged
  /\ in_types = <<DT_FLOAT, DT_RESOURCE, DT_FLOAT, DT_RESOURCE>>
  /\ index_mapping = <<0, 2, 1, 3>>

\* No non-resource entry stands behind a resource entry.
ResourcesTrail(types) ==
  \A i, j \in Positions(types) :
    (i < j /\ IsResourceAt(types, i)) => IsResourceAt(types, j)

\* C2: for a type list whose resources are scattered, the mapping is a
\* bijection on [0, n), keeps the relative order of the positions of each
\* class, sends every resource position to an index >= n - resourceCount,
\* and the type list ShuffleInputDataTypeAttribute makes of it has no
\* non-resource entry after a resource entry.
C2_BijectiveStableResourcesLast ==
  Rearranged =>
    /\ DOMAIN index_mapping = 1..Len(in_types)
    /\ {index_mapping[i + 1] : i \in Positions(in_types)} = Positions(in_types)
    /\ \A i, j \in Positions(in_types) :
         (i < j /\ IsResourceAt(in_types, i) = IsResourceAt(in_types, j))
           => index_mapping[i + 1] < index_mapping[j + 1]
    /\ \A i \in Positions(in_types) :
         IsResourceAt(in_types, i)
           => index_mapping[i + 1] >= Len(in_types) - ResourceCount(in_types)
    /\ (kind = "Types" /\ pc = "done") =>
         /\ Len(attrs.T) = Len(in_types)
         /\ \A i \in Positions(in_types) :
              attrs.T[index_mapping[i + 1] + 1] = in_types[i + 1]
         /\ ResourcesTrail(attrs.T)

\* C2 witness: a list with two scattered resources was shuffled.
C2_Witness ==
  /\ kind = "Types" /\ pc = "done" /\ input_need_rearrange
  /\ in_types = <<DT_RESOURCE, DT_FLOAT, DT_RESOURCE, DT_FLOAT, DT_FLOAT>>
  /\ attrs.T = <<DT_FLOAT, DT_FLOAT, DT_FLOAT, DT_RESOURCE, DT_RESOURCE>>

\* C3: need_rewrite is set exactly when some non-resource type stands at a
\* position after a resource type; so it is false for the empty list, for a
\* list without a resource and for a list whose resources all trail.
C3_NeedRewriteIffScattered ==
  pc # "start" =>
    /\ in_types = entry.attrs.T
    /\ input_need_rearrange <=> ~ResourcesTrail(in_types)
    /\ in_types = <<>> => ~input_need_rearrange
    /\ ResourceCount(in_types) = 0 => ~input_need_rearrange

\* C3 witness: a list whose resources all trail was found not to need a
\* rewrite.
C3_Witness ==
  /\ kind = "Types" /\ pc = "done" /\ ~input_need_rearrange
  /\ in_types = <<DT_FLOAT, DT_RESOURCE, DT_RESOURCE>>

\* --------------------------------------------------- the node under rewrite
\* The edges a graph holds, and the data edges into a node.
LiveEdges(e) == {e[h] : h \in DOMAIN e} \ {NoEdge}
DataInEdges(e, n) == {x \in LiveEdges(e) : x.dst = n /\ ~IsControlEdge(x)}

\* The input slot of the node's argument 0.
FirstArgSlot == IF kind = "If" THEN 1 ELSE 0

\* The attributes of the node that name a function.
BodyAttrs ==
  IF kind = "While" THEN {"cond", "body"}
  ELSE IF kind = "If" THEN {"then_branch", "else_branch"}
  ELSE {"f"}

\* The producer endpoint that fed argument i when the rewrite was entered.
Producer(i) == <<"in", i>>

PredicateEdge == MakeEdge(<<"pred">>, 0, N, 0)

Consumer(i) == <<"out", i>>
EdgesInto(e, n) == {x \in LiveEdges(e) : x.dst = n}

EntryBody(a) == entry.bodies[entry.attrs[a]]
ResourceRets(b) == {j \in Positions(b.ret_types) : IsResourceAt(b.ret_types, j)}

\* C7: the rewrite of a While node that needs one returns Unimplemented
\* exactly when some resource _Retval i of the body does not come, across
\* zero or more Identity nodes, from the _Arg of index i (it comes from
\* another _Arg, or from a node that is neither _Arg nor Identity);
\* otherwise it succeeds.
C7_WhileResourceRetvalSameIndex ==
  (kind = "While" /\ pc = "done" /\ input_need_rearrange) =>
    LET same == \A i \in ResourceRets(EntryBody("body")) :
                  EntryBody("body").srcs[i + 1] = i
    IN /\ status = "Unimplemented" <=> ~same
       /\ same => status = "OK"

\* C7 witness: a body that returns its resource arguments at their own
\* index, behind an Identity node, was rewritten.
C7_Witness ==
  /\ kind = "While" /\ pc = "done" /\ status = "OK" /\ input_need_rearrange
  /\ EntryBody("body").ids = 1
  /\ EntryBody("body").srcs = <<0, -1, 2>>

\* C8: when the rewrite of a While node returns Unimplemented, the node's T
\* attribute, its edges, its cond and body references and the library are
\* what they were when the rewrite was entered.
C8_WhileCheckBeforeRewrite ==
  (kind = "While" /\ pc = "done" /\ status = "Unimplemented") =>
    /\ attrs.T = entry.attrs.T
    /\ LiveEdges(g) = LiveEdges(EntryGraph)
    /\ attrs.cond = entry.attrs.cond
    /\ attrs.body = entry.attrs.body
    /\ fld = EntryFld

\* The rewrite of a call or If node whose Tout holds a resource has returned.
ResourceOutputDone ==
  /\ kind \in {"StatefulPartitionedCall", "If"}
  /\ pc = "done"
  /\ HasResource(entry.attrs.Tout)

\* C9 as stated: Unimplemented is returned only when some resource _Retval
\* of a referenced body comes, across zero or more Identity nodes, from a
\* node that is no _Arg.
C9_IdentityChainFromArgAccepted ==
  ResourceOutputDone =>
    (status = "Unimplemented" <=>
       \E a \in BodyAttrs : \E j \in ResourceRets(EntryBody(a)) :
         EntryBody(a).srcs[j + 1] < 0)

\* C9 amended: a resource _Retval is accepted exactly when the node at its
\* input 0 is an _Arg; Unimplemented is returned when it is anything else,
\* an Identity node fed by an _Arg included.
C9_OnlyDirectArgAccepted ==
  ResourceOutputDone =>
    LET direct == \A a \in BodyAttrs : \A j \in ResourceRets(EntryBody(a)) :
                    EntryBody(a).srcs[j + 1] >= 0 /\ EntryBody(a).ids = 0
    IN /\ status = "Unimplemented" <=> ~direct
       /\ direct => status = "OK"

\* C9 witness: a callee that returns its resource argument behind one
\* Identity node was refused.
C9_Witness ==
  /\ kind = "StatefulPartitionedCall" /\ pc = "done"
  /\ status = "Unimplemented"
  /\ entry.attrs.Tout = <<DT_RESOURCE>>
  /\ EntryBody("f").srcs = <<0>>
  /\ EntryBody("f").ids = 1

\* C10: when the callee of a StatefulPartitionedCall returns a resource that
\* comes from no _Arg, the rewrite returns Unimplemented, the library holds
\* the definitions it held and f names the function it named.
C10_CallUnimplementedLeavesLibrary ==
  (/\ kind = "StatefulPartitionedCall"
   /\ pc = "done"
   /\ \E j \in ResourceRets(EntryBody("f")) : EntryBody("f").srcs[j + 1] < 0) =>
    /\ status = "Unimplemented"
    /\ fld = EntryFld
    /\ attrs.f = entry.attrs.f

\* C10 witness: a callee over [resource, float] that makes the resource it
\* returns was refused after the inputs of the node were rearranged.
C10_Witness ==
  /\ kind = "StatefulPartitionedCall" /\ pc = "done"
  /\ status = "Unimplemented"
  /\ in_types = <<DT_RESOURCE, DT_FLOAT>>
  /\ entry.attrs.Tout = <<DT_RESOURCE>>
  /\ EntryBody("f").srcs = <<-1>>
  /\ EntryBody("f").ids = 0
  /\ fld = EntryFld

\* A rewrite of the node has ended well.
RewrittenOK == pc = "done" /\ status = "OK" /\ node_rewritten

\* The non-resource entries of a list of types or of return values, in order.
NonResourceTypes(types) == SelectSeq(types, LAMBDA t : t # DT_RESOURCE)
NonResourceRets(rets) == SelectSeq(rets, LAMBDA r : r.type # DT_RESOURCE)

\* C11: in a body whose _Retval nodes were rearranged, no _Retval of a
\* resource position is left and the _Retval of a non-resource position j
\* has the index "number of non-resource positions before j" (dense, in the
\* original order); after the rewrite every definition the node references
\* returns the non-resource values of the original, in order, and Tout of a
\* call or If node is the original Tout without its resource entries.
C11_RetvalsCompactedInOrder ==
  /\ (/\ pc \in {"while_save", "call_save", "if_save"}
      /\ (kind = "While" => WhileAttrs[attr_i] = "body")) =>
       LET types == entry.bodies[f_name].ret_types IN
       \A j \in Positions(types) :
         IF IsResourceAt(types, j)
         THEN fbody.ret_nodes[j + 1] \notin DOMAIN fbody.graph
         ELSE /\ fbody.ret_nodes[j + 1] \in DOMAIN fbody.graph
              /\ fbody.graph[fbody.ret_nodes[j + 1]].index
                   = NonResourcesBefore(types, j)
  /\ RewrittenOK =>
       /\ \A a \in BodyAttrs :
            fld[attrs[a]].ret = NonResourceRets(EntryFld[entry.attrs[a]].ret)
       /\ kind # "While" => attrs.Tout = NonResourceTypes(entry.attrs.Tout)

\* C11 witness: a While body over [resource, float, float] was saved with
\* its two float return values at indices 0 and 1.
C11_Witness ==
  /\ kind = "While" /\ RewrittenOK
  /\ entry.attrs.T = <<DT_RESOURCE, DT_FLOAT, DT_FLOAT>>
  /\ Len(fld[attrs.body].ret) = 2
  /\ fld[attrs.body].ret[1].node = <<"retval", 1>>
  /\ fld[attrs.body].ret[2].node = <<"retval", 2>>

\* C12: after a rewrite of a call or If node with a resource output has ended
\* well, the consumer of a resource output j reads the producer that fed the
\* argument which _Retval j of every referenced body returns, and the
\* consumer of a non-resource output j reads the node's output slot "number
\* of non-resource outputs before j"; the consumers' ends stay what they were.
C12_ResourceConsumersReadProducers ==
  (RewrittenOK /\ ResourceOutputDone) =>
    \A j \in Positions(entry.attrs.Tout) :
      IF IsResourceAt(entry.attrs.Tout, j)
      THEN \A a \in BodyAttrs :
             EdgesInto(g, Consumer(j)) =
               {MakeEdge(Producer(EntryBody(a).srcs[j + 1]), 0, Consumer(j), 0)}
      ELSE EdgesInto(g, Consumer(j)) =
             {MakeEdge(N, NonResourcesBefore(entry.attrs.Tout, j), Consumer(j), 0)}

\* C13: the rewrite of an If node whose branches return a resource output
\* from different sources returns Unimplemented.
C13_IfBranchMismatchUnimplemented ==
  (/\ kind = "If" /\ pc = "done"
   /\ \E j \in ResourceRets(EntryBody("then_branch")) :
        EntryBody("then_branch").srcs[j + 1] # EntryBody("else_branch").srcs[j + 1]) =>
    status = "Unimplemented"

\* The node's declared outputs hold a resource.
DeclaresResourceOutput == ResourceCount(OutputTypesOf(kind, entry.attrs)) > 0

\* C14 as stated: every node that declares a resource output is rewritten,
\* whether or not its inputs need rearranging.
C14_ResourceOutputAlwaysRewritten ==
  (pc = "done" /\ DeclaresResourceOutput) => node_rewritten

\* C14 amended: a call or If node that declares a resource output is taken
\* up for rewriting also when its resource inputs trail, and when that
\* rewrite ends well no referenced body returns a resource and every
\* consumer of a resource output reads one of the original producers; a
\* While node whose resource inputs trail is left as it is, resource
\* outputs or not.
C14_OutputEliminationForCallAndIfOnly ==
  /\ (kind \in {"StatefulPartitionedCall", "If"} /\ pc # "start"
      /\ DeclaresResourceOutput) =>
       /\ node_rewritten
       /\ RewrittenOK =>
            /\ \A a \in BodyAttrs : \A j \in DOMAIN fld[attrs[a]].ret :
                 fld[attrs[a]].ret[j].type # DT_RESOURCE
            /\ \A j \in Positions(entry.attrs.Tout) :
                 IsResourceAt(entry.attrs.Tout, j) =>
                   /\ Cardinality(EdgesInto(g, Consumer(j))) = 1
                   /\ EdgesInto(g, Consumer(j)) \subseteq
                        {MakeEdge(Producer(k), 0, Consumer(j), 0) :
                           k \in Positions(entry.attrs.Tin)}
  /\ (kind = "While" /\ pc = "done" /\ ResourcesTrail(entry.attrs.T)) =>
       /\ ~node_rewritten
       /\ attrs = entry.attrs /\ g = EntryGraph /\ fld = EntryFld

\* C14 witness: an If node over [float, resource], inputs in place, had its
\* resource output eliminated.
C14_Witness ==
  /\ kind = "If" /\ RewrittenOK /\ ~input_need_rearrange
  /\ entry.attrs.Tin = <<DT_FLOAT, DT_RESOURCE>>
  /\ entry.attrs.Tout = <<DT_FLOAT, DT_RESOURCE>>
  /\ attrs.Tout = <<DT_FLOAT>>
  /\ EdgesInto(g, Consumer(1)) = {MakeEdge(Producer(1), 0, Consumer(1), 0)}

\* The node was entered with the graph, the attributes and the library it has.
Untouched ==
  /\ attrs = entry.attrs
  /\ LiveEdges(g) = LiveEdges(EntryGraph)
  /\ fld = EntryFld

\* C15: a node without a resource input and without a resource output is
\* left untouched by every execution: node_rewritten is false, no attribute
\* or edge changes, no body is instantiated and no function is added.
C15_NoResourceNodeUntouched ==
  (/\ pc # "start"
   /\ ResourceCount(InputTypesOf(kind, entry.attrs)) = 0
   /\ ResourceCount(OutputTypesOf(kind, entry.attrs)) = 0) =>
    /\ pc = "done" /\ status = "OK"
    /\ ~node_rewritten
    /\ Untouched
    /\ fbody = NoBody /\ f_name = <<>>

\* ------------------------------------------------- properties of the pass
\* The call-like nodes of the definitions the pass was entered with.
EntryCallLike ==
  UNION {{entry.fld[nm].node_def[x] : x \in DOMAIN entry.fld[nm].node_def} :
         nm \in DOMAIN entry.fld}

\* Every call-like node has its resource inputs trailing and no resource
\* output.
AlreadyNormalized ==
  \A n \in EntryCallLike :
    FunctionAttrs(n.op) # <<>> =>
      /\ ResourcesTrail(InputTypesOf(n.op, n.attrs))
      /\ ResourceCount(OutputTypesOf(n.op, n.attrs)) = 0

\* C16: when the pass runs over functions that are already normalized, no
\* activation reports modified, no node is rewritten, no function is added to
\* the library and the compile nodes keep their functions.
C16_NormalizedLeftUnmodified ==
  AlreadyNormalized =>
    /\ \A i \in DOMAIN frames : ~frames[i].modified
    /\ ~node_rewritten
    /\ DOMAIN fld = DOMAIN entry.fld
    /\ options_graph = entry.graph

\* The function a compile node names.
FunctionOf(n) == n.attrs[kNodeTypeToFunctionAttrMapping[n.type_string]]
CompileNodes(graph0) ==
  {i \in DOMAIN graph0 : graph0[i].type_string \in DOMAIN kNodeTypeToFunctionAttrMapping}

\* The definitions of the library that were written from the function name.
RewritesOf(name) ==
  {nm \in DOMAIN fld : Len(nm) = Len(name) + 2 /\ SubSeq(nm, 1, Len(name) + 1) =
                                                   StrCat(name, "_rearrange_")}

\* C17: after a pass that succeeded, two compile nodes that named the same
\* function name one and the same function, and that function was written
\* under one new name at most.
C17_SharedFunctionRewrittenOnce ==
  (run.pc = "done" /\ run.status = "OK") =>
    \A i, j \in CompileNodes(entry.graph) :
      FunctionOf(entry.graph[i]) = FunctionOf(entry.graph[j]) =>
        /\ FunctionOf(options_graph[i]) = FunctionOf(options_graph[j])
        /\ Cardinality(RewritesOf(FunctionOf(entry.graph[i]))) <= 1

\* C18: a function is never entered again while an activation of it is in
\* progress, unless that entry returns Internal at once: a cycle of
\* associated functions does not lead to unbounded recursion.
C18_CycleSurfacesAsInternal ==
  \A i, j \in DOMAIN frames :
    (i < j /\ frames[i].func_name = frames[j].func_name) =>
      frames[j].pc = "return" /\ frames[j].ret_status = "Internal"

C20_SucceedsOrLeavesCallersAlone ==
  run.pc = "done" =>
    /\ frames = <<>>
    /\ IF run.status = "OK"
       THEN /\ \A i \in CompileNodes(options_graph) :
                 FunctionOf(options_graph[i]) \in DOMAIN fld
            /\ \A nm \in DOMAIN fld : References(fld[nm]) \subseteq DOMAIN fld
       ELSE /\ run.status = "Unimplemented"
            /\ \A nm \in DOMAIN entry.fld :
                 nm \in DOMAIN fld /\ fld[nm] = entry.fld[nm]
            /\ \A i \in CompileNodes(options_graph) :
                 \/ options_graph[i] = entry.graph[i]
                 \/ FunctionOf(options_graph[i]) \in DOMAIN fld

\* Run failed at its second compile node, after it had repointed the first
\* and had added functions to the library for both.
C20_Witness ==
  /\ run.pc = "done" /\ run.status = "Unimplemented" /\ run.n = 2
  /\ options_graph[1] # entry.graph[1]
  /\ RewritesOf(<<"e">>) # {}
  /\ RewritesOf(<<"cond">>) # {}

\* The functions the nodes of a body graph name.
NamedIn(graph0) ==
  UNION {{graph0[x].attrs[FunctionAttrs(graph0[x].op)[k]] :
            k \in 1..Len(FunctionAttrs(graph0[x].op))} : x \in DOMAIN graph0}

\* C21: at no point does a function attribute name a function that the
\* library does not hold: not of the node under rewrite, not of a node of a
\* body being processed, not of a compile node, not of a node of a
\* definition; so a caller is repointed only after the new body was
\* serialized and registered.
C21_ReferencesAlwaysRegistered ==
  /\ \A k \in 1..Len(FunctionAttrs(kind)) : attrs[FunctionAttrs(kind)[k]] \in DOMAIN fld
  /\ \A i \in DOMAIN frames : NamedIn(frames[i].g) \subseteq DOMAIN fld
  /\ \A i \in CompileNodes(options_graph) : FunctionOf(options_graph[i]) \in DOMAIN fld
  /\ \A nm \in DOMAIN fld : References(fld[nm]) \subseteq DOMAIN fld

\* A StatefulPartitionedCall node, a node of a body and a compile node were
\* repointed to functions that the pass added.
C21_Witness ==
  /\ run.pc = "done" /\ run.status = "OK"
  /\ \E i \in CompileNodes(options_graph) :
       /\ FunctionOf(options_graph[i]) \notin DOMAIN entry.fld
       /\ References(fld[FunctionOf(options_graph[i])]) \cap DOMAIN entry.fld = {}

\* The non-control edges that feed input slot i of n.
FeedersOf(i) ==
  {h \in in_edges(g, N) : ~IsControlEdge(g[h]) /\ g[h].dst_input = i}

\* C22: while the input edges of n are reordered no input slot is fed by two
\* non-control edges, and when the reordering is complete every input slot
\* is fed by exactly one.
C22_InputSlotsUniquelyFed ==
  /\ pc \in {"reorder", "reordered"} =>
       \A i \in 0..Len(in_types) : Cardinality(FeedersOf(i)) <= 1
  /\ pc = "reordered" =>
       \A i \in 0..(Len(in_types) - 1 + (IF kind = "If" THEN 1 ELSE 0)) :
         Cardinality(FeedersOf(i)) = 1

\* C25: the activations entered for associated functions (all but the
\* outermost) are for functions the map has no entry for and no two of them
\* are for the same function; while the pass runs, an entry of the map is
\* empty or names a function that the library holds.
C25_RecursesOncePerKey ==
  /\ \A i \in 2..Len(frames) :
       /\ Canonicalize(frames[i].func_name, NoAttrs) \notin
            DOMAIN canonicalized_name_to_new_name
       /\ \A j \in 2..Len(frames) :
            frames[j].func_name = frames[i].func_name => j = i
  /\ run.pc # "done" =>
       \A key \in DOMAIN canonicalized_name_to_new_name :
         canonicalized_name_to_new_name[key] \subseteq DOMAIN fld

\* ======================================================= graph_def_util.cc
\* AddDefaultAttrsToGraphDef and RemoveNewDefaultAttrsFromGraphDef over a
\* GraphDef of at most MaxNodes nodes.
MaxNodes == 2

\* No node is being rewritten and no pass is running.
NoRewrite ==
  /\ kind = "None"
  /\ attrs = <<>>
  /\ g = <<>>
  /\ fld = <<>>
  /\ entry = <<>>
  /\ pc = "idle"
  /\ status = "OK"
  /\ node_rewritten = FALSE
  /\ in_types = <<>>
  /\ out_types = <<>>
  /\ input_need_rearrange = FALSE
  /\ resource_input_count = IndeterminateInt
  /\ index_mapping = <<>>
  /\ has_resource_output = FALSE
  /\ attr_i = 0
  /\ f_name = <<>>
  /\ fbody = NoBody
  /\ retval_index_mapping = EmptyMap
  /\ resource_retval_to_arg = EmptyMap
  /\ NoPass

AttrNames == {"x", "y"}
AttrValues == {0, 1}

\* An OpDef is its attr list: by name, an AttrDef with or without a default.
AttrDefs == {[has_default_value |-> d, default_value |-> 0] : d \in BOOLEAN}
OpDefs == UNION {[A -> AttrDefs] : A \in SUBSET AttrNames}
\* The consumer's OpDefs: an older binary's, whose defaults do not matter.
OldOpDefs == {d \in OpDefs : \A a \in DOMAIN d : ~d[a].has_default_value}
\* Op "A" is registered with any OpDef; op "B" has one attr, x, defaulting to
\* 1, and is registered or not.
Registries(defsA, defB) ==
  {("A" :> d) : d \in defsA} \cup {("A" :> d) @@ ("B" :> defB) : d \in defsA}

\* A NodeDef: its op and its attr map.
NodeDefs ==
  {[op |-> "A", attr |-> m] : m \in UNION {[A -> AttrValues] : A \in SUBSET AttrNames}}
  \cup {[op |-> "B", attr |-> m] : m \in UNION {[A -> AttrValues] : A \in SUBSET {"x"}}}

\* OpRegistryInterface::LookUp: the OpDef registered under the name, or an
\* error status.
LookUp(registry, op) ==
  IF op \in DOMAIN registry
  THEN [s |-> "OK", op_def |-> registry[op]]
  ELSE [s |-> "NotFound", op_def |-> <<>>]

\* FindAttr: the AttrDef of that name in the OpDef; {} stands for nullptr.
FindAttr(name, op_def) ==
  IF name \in DOMAIN op_def THEN {op_def[name]} ELSE {}

AreAttrValuesEqual(a, b) == a = b

\* The defaults overwrite what the node already carries.
AddDefaultsToNodeDef_Overwrite(op_def, node_def) ==
  [node_def EXCEPT !.attr =
     [a \in DOMAIN node_def.attr
            \cup {b \in DOMAIN op_def : op_def[b].has_default_value} |->
        IF a \in DOMAIN op_def /\ op_def[a].has_default_value
        THEN op_def[a].default_value ELSE node_def.attr[a]]]

\* AddDefaultsToNodeDef: every attr of the OpDef that has a default and that
\* the node lacks is added with the default; what the node has stays.
AddDefaultsToNodeDef(op_def, node_def) ==
  [node_def EXCEPT !.attr =
     [a \in DOMAIN node_def.attr
            \cup {b \in DOMAIN op_def : op_def[b].has_default_value} |->
        IF a \in DOMAIN node_def.attr
        THEN node_def.attr[a] ELSE op_def[a].default_value]]

\* Lines 55-65: the loop from node i (0-based) to the end; a failed LookUp
\* returns at once and leaves the nodes before it upgraded.
RECURSIVE AddDefaultAttrsLoop(_, _, _)
AddDefaultAttrsLoop(gd, registry, i) ==
  IF i >= Len(gd) THEN [s |-> "OK", graph_def |-> gd]
  ELSE LET r == LookUp(registry, gd[i + 1].op) IN
         IF r.s # "OK" THEN [s |-> r.s, graph_def |-> gd]
         ELSE AddDefaultAttrsLoop(
                [gd EXCEPT ![i + 1] = AddDefaultsToNodeDef(r.op_def, @)],
                registry, i + 1)

\* The loop starts at node 0 whatever the offset.
AddDefaultAttrsToGraphDef_FromStart(gd, registry, offset) ==
  IF offset > Len(gd) THEN [s |-> "InvalidArgument", graph_def |-> gd]
  ELSE AddDefaultAttrsLoop(gd, registry, 0)

\* Lines 46-67.
AddDefaultAttrsToGraphDef(gd, registry, offset) ==
  IF offset > Len(gd) THEN [s |-> "InvalidArgument", graph_def |-> gd]
  ELSE AddDefaultAttrsLoop(gd, registry, offset)

\* Every attr the consumer does not know is stripped, whatever its value.
ToRemove_AnyValue(node_def, consumer_op_def, producer_op_def) ==
  {a \in DOMAIN node_def.attr :
     /\ FindAttr(a, consumer_op_def) = {}
     /\ \E producer_attr_def \in FindAttr(a, producer_op_def) :
          producer_attr_def.has_default_value}

\* Lines 91-106: to_remove of one node.
ToRemove(node_def, consumer_op_def, producer_op_def) ==
  {a \in DOMAIN node_def.attr :
     /\ FindAttr(a, consumer_op_def) = {}
     /\ \E producer_attr_def \in FindAttr(a, producer_op_def) :
          /\ producer_attr_def.has_default_value
          /\ AreAttrValuesEqual(producer_attr_def.default_value, node_def.attr[a])}

\* Lines 78-115: the loop from node n (0-based) to the end. The attr loop only
\* reads the node, so whichever order the map iterates in, an attr in neither
\* OpDef returns InvalidArgument before the node is touched.
RECURSIVE RemoveNewDefaultAttrsLoop(_, _, _, _, _)
RemoveNewDefaultAttrsLoop(gd, consumer, producer, removed, n) ==
  IF n >= Len(gd) THEN [s |-> "OK", graph_def |-> gd, op_attr_removed |-> removed]
  ELSE LET node_def == gd[n + 1]
           p == LookUp(producer, node_def.op)
           c == LookUp(consumer, node_def.op)
           failed(st) == [s |-> st, graph_def |-> gd, op_attr_removed |-> removed]
       IN IF p.s # "OK" THEN failed(p.s)
          ELSE IF c.s # "OK" THEN failed(c.s)
          ELSE IF \E a \in DOMAIN node_def.attr :
                    FindAttr(a, c.op_def) = {} /\ FindAttr(a, p.op_def) = {}
          THEN failed("InvalidArgument")
          ELSE LET to_remove == ToRemove(node_def, c.op_def, p.op_def) IN
                 RemoveNewDefaultAttrsLoop(
                   [gd EXCEPT ![n + 1].attr =
                      [a \in DOMAIN node_def.attr \ to_remove |-> node_def.attr[a]]],
                   consumer, producer,
                   removed \cup {<<node_def.op, a>> : a \in to_remove}, n + 1)

\* Lines 69-117.
RemoveNewDefaultAttrsFromGraphDef(gd, consumer, producer, removed) ==
  RemoveNewDefaultAttrsLoop(gd, consumer, producer, removed, 0)

\* A GraphDef about to be upgraded from node_offset on, as a batch load does
\* with the node count before the batch, or about to be stripped for a consumer.
InitGraphDef ==
  \E gd \in SeqsOf(NodeDefs, 0, MaxNodes) :
    /\ NoRewrite
    /\ NoSession
    /\ NoRunHelper
    /\ graph_def = gd
    /\ graph_def_before = gd
    /\ util_s = "OK"
    /\ op_attr_removed = {}
    /\ \/ \E r \in Registries(OpDefs, "x" :> [has_default_value |-> TRUE,
                                               default_value |-> 1]),
             o \in 0..(Len(gd) + 1) :
            /\ op_registry = r
            /\ node_offset = o
            /\ consumer_op_registry = <<>>
            /\ producer_op_registry = <<>>
            /\ util_pc = "add"
       \/ \E c \in Registries(OldOpDefs, <<>>),
             p \in {("A" :> d) @@ ("B" :> ("x" :> [has_default_value |-> TRUE,
                                                   default_value |-> 1])) :
                      d \in OpDefs} :
            /\ consumer_op_registry = c
            /\ producer_op_registry = p
            /\ op_registry = <<>>
            /\ node_offset = 0
            /\ util_pc = "remove"

\* One call of AddDefaultAttrsToGraphDef; the caller may repeat it.
AddDefaultAttrs ==
  /\ util_pc \in {"add", "add_again"}
  /\ LET r == AddDefaultAttrsToGraphDef(graph_def, op_registry, node_offset) IN
       /\ graph_def' = r.graph_def
       /\ util_s' = r.s
  /\ util_pc' = IF util_pc = "add" THEN "add_again" ELSE "added_twice"
  /\ UNCHANGED <<nodeVars, ctlVars, checkVars, funcVars, retVars, passVars,
                 input_edges_left, op_registry, consumer_op_registry,
                 producer_op_registry, node_offset, op_attr_removed,
                 graph_def_before, sessVars, runVars>>

\* One call of RemoveNewDefaultAttrsFromGraphDef.
RemoveNewDefaultAttrs ==
  /\ util_pc = "remove"
  /\ LET r == RemoveNewDefaultAttrsFromGraphDef(
                graph_def, consumer_op_registry, producer_op_registry,
                op_attr_removed) IN
       /\ graph_def' = r.graph_def
       /\ util_s' = r.s
       /\ op_attr_removed' = r.op_attr_removed
  /\ util_pc' = "removed"
  /\ UNCHANGED <<nodeVars, ctlVars, checkVars, funcVars, retVars, passVars,
                 input_edges_left, op_registry, consumer_op_registry,
                 producer_op_registry, node_offset, graph_def_before,
                 sessVars, runVars>>

NextGraphDef ==
  \/ AddDefaultAttrs
  \/ RemoveNewDefaultAttrs

SpecGraphDef == InitGraphDef /\ [][NextGraphDef]_vars

\* ------------------------------------------------- graph_def_util properties
AddDefaultAttrsReturned == util_pc \in {"add_again", "added_twice"}

\* A node the registry knows and that lacks one of its op's defaulted attrs.
LacksDefault(node_def) ==
  /\ LookUp(op_registry, node_def.op).s = "OK"
  /\ AddDefaultsToNodeDef(LookUp(op_registry, node_def.op).op_def, node_def) # node_def

\* C23: AddDefaultAttrsToGraphDef touches only the nodes at index >=
\* node_offset: whether it returns OK or an error, the nodes below node_offset
\* are what they were before the calls (and no node is added or dropped); with
\* node_offset greater than the node count it returns InvalidArgument and
\* changes nothing, and with node_offset equal to the node count it returns
\* OK and changes nothing.
C23_OnlyFromOffset ==
  AddDefaultAttrsReturned =>
    /\ Len(graph_def) = Len(graph_def_before)
    /\ \A i \in 0..(Len(graph_def_before) - 1) :
         i < node_offset => graph_def[i + 1] = graph_def_before[i + 1]
    /\ node_offset > Len(graph_def_before) =>
         util_s = "InvalidArgument" /\ graph_def = graph_def_before
    /\ node_offset = Len(graph_def_before) =>
         util_s = "OK" /\ graph_def = graph_def_before

\* The first call upgraded a node at or after the offset and left alone a
\* node below it that lacks a default.
C23_Witness ==
  /\ util_pc = "add_again"
  /\ node_offset > 0
  /\ node_offset < Len(graph_def)
  /\ graph_def # graph_def_before
  /\ \E i \in 0..(node_offset - 1) : LacksDefault(graph_def[i + 1])

\* C24: default-value population is idempotent and never overwrites: a call
\* of AddDefaultAttrsToGraphDef leaves every attribute a node already has at
\* its value, and after a call that returned OK a second call with the same
\* registry and offset returns OK and changes no node.
C24_Idempotent ==
  [][/\ util_pc \in {"add", "add_again"} =>
          \A i \in 1..Len(graph_def) :
            \A a \in DOMAIN graph_def[i].attr :
              /\ a \in DOMAIN graph_def'[i].attr
              /\ graph_def'[i].attr[a] = graph_def[i].attr[a]
     /\ (util_pc = "add_again" /\ util_s = "OK") =>
          (util_s' = "OK" /\ graph_def' = graph_def)]_vars

\* Both calls returned OK; defaults were filled in, and a node at or after the
\* offset keeps a value that differs from its op's default.
C24_Witness ==
  /\ util_pc = "added_twice"
  /\ util_s = "OK"
  /\ graph_def # graph_def_before
  /\ \E i \in (node_offset + 1)..Len(graph_def) :
       \E a \in DOMAIN graph_def[i].attr :
         \E attr_def \in FindAttr(a, LookUp(op_registry, graph_def[i].op).op_def) :
           /\ attr_def.has_default_value
           /\ graph_def[i].attr[a] # attr_def.default_value

\* The attr map of node i (1-based) as the caller passed it.
AttrsBefore(i) == graph_def_before[i].attr
ConsumerDef(i) == LookUp(consumer_op_registry, graph_def_before[i].op)
ProducerDef(i) == LookUp(producer_op_registry, graph_def_before[i].op)
\* The attribute is new to the consumer and carries the producer's default.
NewDefault(i, a) ==
  /\ FindAttr(a, ConsumerDef(i).op_def) = {}
  /\ \E d \in FindAttr(a, ProducerDef(i).op_def) :
       d.has_default_value /\ d.default_value = AttrsBefore(i)[a]

\* C26: after RemoveNewDefaultAttrsFromGraphDef returns OK, every node has
\* lost exactly the attributes that the consumer's OpDef lacks and whose value
\* is the producer's default, every other attribute is kept at its value, and
\* op_attr_removed holds exactly the (op, attr) pairs removed; it never
\* returns OK when a node carries an attribute unknown to both OpDefs, and
\* returns InvalidArgument when that happens under ops both registries know.
C26_RemovesExactlyNewDefaults ==
  util_pc = "removed" =>
    /\ util_s = "OK" =>
         /\ Len(graph_def) = Len(graph_def_before)
         /\ \A i \in 1..Len(graph_def_before) :
              /\ graph_def[i].op = graph_def_before[i].op
              /\ DOMAIN graph_def[i].attr =
                   {a \in DOMAIN AttrsBefore(i) : ~NewDefault(i, a)}
              /\ \A a \in DOMAIN graph_def[i].attr :
                   graph_def[i].attr[a] = AttrsBefore(i)[a]
              /\ \A a \in DOMAIN AttrsBefore(i) :
                   FindAttr(a, ConsumerDef(i).op_def) # {}
                   \/ FindAttr(a, ProducerDef(i).op_def) # {}
         /\ op_attr_removed =
              {<<graph_def_before[i].op, a>> :
                 i \in 1..Len(graph_def_before), a \in AttrNames}
              \cap {p \in {"A", "B"} \X AttrNames :
                      \E i \in 1..Len(graph_def_before) :
                        /\ graph_def_before[i].op = p[1]
                        /\ p[2] \in DOMAIN AttrsBefore(i)
                        /\ NewDefault(i, p[2])}
    /\ ((\A i \in 1..Len(graph_def_before) :
           ConsumerDef(i).s = "OK" /\ ProducerDef(i).s = "OK")
        /\ (\E i \in 1..Len(graph_def_before) :
              \E a \in DOMAIN AttrsBefore(i) :
                /\ FindAttr(a, ConsumerDef(i).op_def) = {}
                /\ FindAttr(a, ProducerDef(i).op_def) = {}))
         => util_s = "InvalidArgument"

\* An OK call that stripped one attribute of a node and kept another one the
\* consumer lacks, because its value is not the producer's default.
C26_Witness ==
  /\ util_pc = "removed"
  /\ util_s = "OK"
  /\ op_attr_removed # {}
  /\ \E i \in 1..Len(graph_def) :
       /\ DOMAIN graph_def[i].attr # DOMAIN AttrsBefore(i)
       /\ \E a \in DOMAIN graph_def[i].attr :
            FindAttr(a, ConsumerDef(i).op_def) = {}

\* ============================================================ grpc_session.cc
\* One GrpcSession shared by client threads; every step that takes mu_ and
\* releases it again is one action, and a master call is another.
MaxSessions == 2
MaxVersion == 1
Threads == {"t1", "t2"}

\* The empty GraphDef of ListDevices (line 346) and a caller's graph.
EmptyGraphDef == "empty"
CallerGraphs == {"graph"}

IdleCall == [op |-> "none", pc |-> "idle", req |-> <<>>, resp |-> <<>>,
             graph |-> EmptyGraphDef, s |-> "OK"]

\* The call returns st to its caller.
Returned(c, st) == [IdleCall EXCEPT !.op = c.op, !.s = st]

\* Lines 37-38: a fresh GrpcSession, and a master that has no session yet.
InitSession ==
  /\ NoRewrite
  /\ NoUtil
  /\ NoRunHelper
  /\ handle_ = <<>>
  /\ current_graph_version_ = -1
  /\ mu_ = NoThread
  /\ call = [t \in Threads |-> IdleCall]
  /\ master_ = [created |-> 0, open |-> {}]

\* A client thread enters Create, Extend, Run, PRunSetup, Close or ListDevices.
Call(t) ==
  /\ call[t].pc = "idle"
  /\ \E op \in {"Create", "Extend", "Run", "PRunSetup", "Close", "ListDevices"} :
       \E graph0 \in (IF op \in {"Create", "Extend"}
                      THEN CallerGraphs ELSE {EmptyGraphDef}) :
         call' = [call EXCEPT ![t] =
                    [IdleCall EXCEPT !.op = op, !.graph = graph0,
                       !.pc = CASE op = "Create" -> "create_check"
                                [] op = "Extend" -> "extend_check"
                                [] op = "Run" -> "run_check"
                                [] op = "PRunSetup" -> "prun_check"
                                [] op = "Close" -> "close_lock"
                                [] OTHER -> "list_read"]]
  /\ UNCHANGED <<handle_, current_graph_version_, mu_, master_>>

\* Lines 95-100: the test of handle_ under mu_, then the lock is dropped; on an
\* empty handle the CreateSessionRequest is built (lines 101-105).
CreateCheck(t) ==
  /\ call[t].pc = "create_check" /\ mu_ = NoThread
  /\ call' = [call EXCEPT ![t] =
                IF handle_ # <<>> THEN Returned(@, "InvalidArgument")
                ELSE [@ EXCEPT !.pc = "create_rpc",
                               !.req = [kind |-> "CreateSession",
                                        graph_def |-> call[t].graph]]]
  /\ UNCHANGED <<handle_, current_graph_version_, mu_, master_>>

\* MasterInterface::CreateSession (line 107): a new session under a fresh,
\* non-empty handle at graph version 0, or a failure.
CreateSession(t) ==
  /\ call[t].pc = "create_rpc"
  /\ \/ /\ master_.created < MaxSessions
        /\ LET h == <<master_.created + 1>> IN
             /\ master_' = [created |-> master_.created + 1,
                            open |-> master_.open \cup {h}]
             /\ call' = [call EXCEPT ![t] =
                           [@ EXCEPT !.pc = "create_install",
                                     !.resp = [session_handle |-> h,
                                               graph_version |-> 0]]]
     \/ /\ call' = [call EXCEPT ![t] = Returned(@, "Unavailable")]
        /\ UNCHANGED master_
  /\ UNCHANGED <<handle_, current_graph_version_, mu_>>

\* Lines 108-113: on success handle_ and current_graph_version_ are taken from
\* the response under mu_; Create returns, and ListDevices goes on (line 347).
CreateInstall(t) ==
  /\ call[t].pc = "create_install" /\ mu_ = NoThread
  /\ handle_' = call[t].resp.session_handle
  /\ current_graph_version_' = call[t].resp.graph_version
  /\ call' = [call EXCEPT ![t] =
                IF @.op = "ListDevices"
                THEN [@ EXCEPT !.pc = "list_reread", !.req = <<>>, !.resp = <<>>]
                ELSE Returned(@, "OK")]
  /\ UNCHANGED <<mu_, master_>>

\* Lines 131-139: handle_is_empty is read under mu_, the lock is dropped, and
\* an empty handle turns the call into Create(graph).
ExtendCheck(t) ==
  /\ call[t].pc = "extend_check" /\ mu_ = NoThread
  /\ call' = [call EXCEPT ![t].pc =
                IF handle_ = <<>> THEN "create_check" ELSE "extend_lock"]
  /\ UNCHANGED <<handle_, current_graph_version_, mu_, master_>>

\* Lines 140-144: mu_ is taken again and the request is built from handle_
\* and current_graph_version_ as they are now.
ExtendLock(t) ==
  /\ call[t].pc = "extend_lock" /\ mu_ = NoThread
  /\ mu_' = t
  /\ call' = [call EXCEPT ![t] =
                [@ EXCEPT !.pc = "extend_rpc",
                          !.req = [kind |-> "ExtendSession",
                                   session_handle |-> handle_,
                                   graph_def |-> call[t].graph,
                                   current_graph_version |-> current_graph_version_]]]
  /\ UNCHANGED <<handle_, current_graph_version_, master_>>

\* A request the master can accept: it names a session that is open.
Accepts(req) == req.session_handle \in master_.open

\* Lines 145-150: MasterInterface::ExtendSession with mu_ held; on success the
\* new graph version is stored; mu_ is released on return.
ExtendSession(t) ==
  /\ call[t].pc = "extend_rpc" /\ mu_ = t
  /\ \/ /\ Accepts(call[t].req)
        /\ call[t].req.current_graph_version < MaxVersion
        /\ current_graph_version_' = call[t].req.current_graph_version + 1
        /\ call' = [call EXCEPT ![t] = Returned(@, "OK")]
     \/ /\ call' = [call EXCEPT ![t] = Returned(@, "Unavailable")]
        /\ UNCHANGED current_graph_version_
  /\ mu_' = NoThread
  /\ UNCHANGED <<handle_, master_>>

\* Lines 268-275 (RunProto) and 286-293 (PRunSetup): under mu_, an empty
\* handle_ returns InvalidArgument, otherwise the request takes the handle.
CheckHandle(t) ==
  /\ call[t].pc \in {"run_check", "prun_check"} /\ mu_ = NoThread
  /\ call' = [call EXCEPT ![t] =
                IF handle_ = <<>> THEN Returned(@, "InvalidArgument")
                ELSE [@ EXCEPT !.pc = IF call[t].pc = "run_check"
                                      THEN "run_rpc" ELSE "prun_rpc",
                               !.req = [kind |-> IF call[t].pc = "run_check"
                                                 THEN "RunStep"
                                                 ELSE "PartialRunSetup",
                                        session_handle |-> handle_]]]
  /\ UNCHANGED <<handle_, current_graph_version_, mu_, master_>>

\* Line 276 MasterInterface::RunStep; lines 304-306 PartialRunSetup.
RunStep(t) ==
  /\ call[t].pc \in {"run_rpc", "prun_rpc"}
  /\ \E st \in {"OK", "Unavailable"} :
       /\ st = "OK" => Accepts(call[t].req)
       /\ call' = [call EXCEPT ![t] = Returned(@, st)]
  /\ UNCHANGED <<handle_, current_graph_version_, mu_, master_>>

\* The handle stays installed until the master has answered.
CloseLock_KeepHandle(t) ==
  /\ call[t].pc = "close_lock" /\ mu_ = NoThread
  /\ call' = [call EXCEPT ![t] =
                IF handle_ = <<>> THEN Returned(@, "InvalidArgument")
                ELSE [@ EXCEPT !.pc = "close_rpc",
                               !.req = [kind |-> "CloseSession",
                                        session_handle |-> handle_]]]
  /\ UNCHANGED <<handle_, current_graph_version_, mu_, master_>>

\* Lines 322-329: under mu_, an empty handle_ returns InvalidArgument;
\* otherwise the request takes the handle and handle_ is cleared.
CloseLock(t) ==
  /\ call[t].pc = "close_lock" /\ mu_ = NoThread
  /\ call' = [call EXCEPT ![t] =
                IF handle_ = <<>> THEN Returned(@, "InvalidArgument")
                ELSE [@ EXCEPT !.pc = "close_rpc",
                               !.req = [kind |-> "CloseSession",
                                        session_handle |-> handle_]]]
  /\ handle_' = <<>>
  /\ UNCHANGED <<current_graph_version_, mu_, master_>>

\* Lines 330-333: MasterInterface::CloseSession, whose Status is returned.
CloseSession(t) ==
  /\ call[t].pc = "close_rpc"
  /\ \/ /\ Accepts(call[t].req)
        /\ master_' = [master_ EXCEPT !.open = @ \ {call[t].req.session_handle}]
        /\ call' = [call EXCEPT ![t] = Returned(@, "OK")]
     \/ /\ call' = [call EXCEPT ![t] = Returned(@, "Unavailable")]
        /\ UNCHANGED master_
  /\ UNCHANGED <<handle_, current_graph_version_, mu_>>

\* Lines 337-347: the request takes handle_ under mu_; an empty one makes
\* ListDevices call Create with an empty graph.
ListDevicesRead(t) ==
  /\ call[t].pc = "list_read" /\ mu_ = NoThread
  /\ call' = [call EXCEPT ![t].pc =
                IF handle_ = <<>> THEN "create_check" ELSE "list_rpc",
              ![t].req = [kind |-> "ListDevices", session_handle |-> handle_]]
  /\ UNCHANGED <<handle_, current_graph_version_, mu_, master_>>

\* Lines 348-351: after Create returned OK the request takes handle_ again.
ListDevicesReread(t) ==
  /\ call[t].pc = "list_reread" /\ mu_ = NoThread
  /\ call' = [call EXCEPT ![t].pc = "list_rpc",
              ![t].req = [kind |-> "ListDevices", session_handle |-> handle_]]
  /\ UNCHANGED <<handle_, current_graph_version_, mu_, master_>>

\* Lines 353-360: MasterInterface::ListDevices.
ListDevices(t) ==
  /\ call[t].pc = "list_rpc"
  /\ \E st \in {"OK", "Unavailable"} :
       /\ st = "OK" => Accepts(call[t].req)
       /\ call' = [call EXCEPT ![t] = Returned(@, st)]
  /\ UNCHANGED <<handle_, current_graph_version_, mu_, master_>>

NextSession ==
  /\ \E t \in Threads :
       \/ Call(t)
       \/ CreateCheck(t)
       \/ CreateSession(t)
       \/ CreateInstall(t)
       \/ ExtendCheck(t)
       \/ ExtendLock(t)
       \/ ExtendSession(t)
       \/ CheckHandle(t)
       \/ RunStep(t)
       \/ CloseLock(t)
       \/ CloseSession(t)
       \/ ListDevicesRead(t)
       \/ ListDevicesReread(t)
       \/ ListDevices(t)
  /\ UNCHANGED <<nodeVars, ctlVars, checkVars, funcVars, retVars, passVars,
                 input_edges_left, utilVars, runVars>>

SpecSession == InitSession /\ [][NextSession]_vars

\* ------------------------------------------------------ GrpcSession properties
InCreateSession(t) == call[t].pc \in {"create_rpc", "create_install"}

\* C27: a GrpcSession holds at most one master session at a time: no
\* CreateSession request is out or about to go out while a handle is
\* installed, at most one CreateSession is under way at any time, and the
\* handle a CreateSession returned is never written over an installed one.
C27_OneSessionAtATime ==
  /\ \A t \in Threads : InCreateSession(t) => handle_ = <<>>
  /\ Cardinality({t \in Threads : InCreateSession(t)}) <= 1

\* C28: every ExtendSession, RunStep, PartialRunSetup, CloseSession and
\* ListDevices request that goes to the master carries a non-empty session
\* handle.
C28_RequestsCarryHandle ==
  \A t \in Threads :
    call[t].pc \in {"extend_rpc", "run_rpc", "prun_rpc", "close_rpc", "list_rpc"}
      => call[t].req.session_handle # <<>>

\* Thread t takes a step of its call.
Steps(t) == call'[t] # call[t]

\* C29: Close clears handle_ before the CloseSession request goes out, and
\* the master's answer does not bring it back; while handle_ is empty Run,
\* PRunSetup and Close return InvalidArgument without a master call, Create
\* is accepted and Extend turns into Create with the graph it was given;
\* current_graph_version_ changes only in a step that stores the answer of a
\* successful CreateSession or ExtendSession.
C29_CloseClearsHandleFirst ==
  [][/\ \A t \in Threads :
          /\ (call[t].pc = "close_lock" /\ handle_ # <<>> /\ Steps(t)) =>
               /\ handle_' = <<>>
               /\ call'[t].pc = "close_rpc"
               /\ master_' = master_
          /\ (call[t].pc = "close_rpc" /\ Steps(t)) =>
               /\ handle_' = handle_
               /\ call'[t].s \in {"OK", "Unavailable"}
          /\ (call[t].pc \in {"run_check", "prun_check", "close_lock"}
              /\ handle_ = <<>> /\ Steps(t)) =>
               /\ call'[t] = Returned(call[t], "InvalidArgument")
               /\ master_' = master_
          /\ (call[t].pc = "create_check" /\ handle_ = <<>> /\ Steps(t)) =>
               /\ call'[t].pc = "create_rpc"
               /\ call'[t].req.graph_def = call[t].graph
          /\ (call[t].pc = "extend_check" /\ handle_ = <<>> /\ Steps(t)) =>
               /\ call'[t].pc = "create_check"
               /\ call'[t].graph = call[t].graph
     /\ current_graph_version_' # current_graph_version_ =>
          \E t \in Threads :
            \/ call[t].pc = "create_install" /\ Steps(t)
            \/ call[t].pc = "extend_rpc" /\ call'[t].s = "OK" /\ Steps(t)]_vars

\* A Close found the handle and its CloseSession failed, so the master still
\* has the session; handle_ is empty and another thread's Create, given a
\* graph, has been accepted.
C29_Witness ==
  \E t \in Threads, u \in Threads :
    /\ call[t] = Returned([IdleCall EXCEPT !.op = "Close"], "Unavailable")
    /\ handle_ = <<>>
    /\ master_.open # {}
    /\ call[u].op = "Create"
    /\ call[u].pc = "create_rpc"
    /\ call[u].req.graph_def \in CallerGraphs

\* ================================================== GrpcSession::RunHelper
MaxFetches == 3
MaxTensors == 2

\* A default-constructed Tensor.
NoTensor == "Tensor()"

\* Lines 193-204: output_name_to_offset and the fetch list after the names
\* from position i (0-based) on; insert keeps the first offset of a name.
RECURSIVE BuildFetches(_, _, _, _)
BuildFetches(names, i, output_name_to_offset, fetches) ==
  IF i >= Len(names) THEN [output_name_to_offset |-> output_name_to_offset,
                           fetch |-> fetches]
  ELSE LET name == names[i + 1] IN
         IF name \in DOMAIN output_name_to_offset
         THEN BuildFetches(names, i + 1, output_name_to_offset, fetches)
         ELSE BuildFetches(names, i + 1, output_name_to_offset @@ (name :> i),
                           Append(fetches, name))

\* std::vector::resize (line 214): cut, or padded with default Tensors.
Resize(v, n) == [k \in 1..n |-> IF k <= Len(v) THEN v[k] ELSE NoTensor]

\* Lines 217-228: the response's tensors from position i (0-based) on are
\* stored at the offset of their name; an unrequested name returns Internal
\* with the tensors before it stored.
RECURSIVE ConvertResponse(_, _, _, _)
ConvertResponse(tensors, i, output_name_to_offset, outs) ==
  IF i >= Len(tensors) THEN [s |-> "OK", outputs |-> outs]
  ELSE IF tensors[i + 1].name \notin DOMAIN output_name_to_offset
  THEN [s |-> "Internal", outputs |-> outs]
  ELSE ConvertResponse(
         tensors, i + 1, output_name_to_offset,
         [outs EXCEPT ![output_name_to_offset[tensors[i + 1].name] + 1] =
            tensors[i + 1].tensor])

\* Lines 229-240: every later occurrence of a name takes the tensor stored at
\* the name's first offset.
FillDuplicates(names, output_name_to_offset, outs) ==
  IF Cardinality(DOMAIN output_name_to_offset) # Len(names)
  THEN [k \in 1..Len(outs) |->
          IF k <= Len(names) /\ output_name_to_offset[names[k]] # k - 1
          THEN outs[output_name_to_offset[names[k]] + 1] ELSE outs[k]]
  ELSE outs

\* Lines 163-247, given what RunProto hands back; outs is the caller's vector.
RunHelper(names, response, outs) ==
  LET built == BuildFetches(names, 0, <<>>, <<>>)
      resized == IF names # <<>> THEN Resize(outs, Len(names)) ELSE outs
      converted == ConvertResponse(response.tensors, 0,
                                   built.output_name_to_offset, resized)
  IN IF response.s # "OK"
     THEN [s |-> response.s, fetch |-> built.fetch, outputs |-> outs]
     ELSE IF converted.s # "OK"
     THEN [s |-> converted.s, fetch |-> built.fetch, outputs |-> converted.outputs]
     ELSE [s |-> "OK", fetch |-> built.fetch,
           outputs |-> FillDuplicates(names, built.output_name_to_offset,
                                      converted.outputs)]

\* The caller's names and vector (fresh, or left over from an earlier Run),
\* and the answer the master will give: any tensors under any names.
InitRunHelper ==
  \E names \in SeqsOf({"a", "b"}, 0, MaxFetches),
     tensors \in SeqsOf([name : {"a", "b", "c"}, tensor : {"t1", "t2"}], 0, MaxTensors),
     st \in {"OK", "Unavailable"}, outs \in {<<>>, <<"t0">>} :
    /\ st = "Unavailable" => tensors = <<>>
    /\ NoRewrite
    /\ NoUtil
    /\ NoSession
    /\ output_tensor_names = names
    /\ outputs = outs
    /\ run_resp = [s |-> st, tensors |-> tensors]
    /\ fetch = <<>>
    /\ run_s = "OK"
    /\ run_pc = "call"

\* One call of RunHelper.
RunHelperCall ==
  /\ run_pc = "call"
  /\ LET r == RunHelper(output_tensor_names, run_resp, outputs) IN
       /\ fetch' = r.fetch
       /\ outputs' = r.outputs
       /\ run_s' = r.s
  /\ run_pc' = "returned"
  /\ UNCHANGED <<nodeVars, ctlVars, checkVars, funcVars, retVars, passVars,
                 input_edges_left, utilVars, sessVars, output_tensor_names,
                 run_resp>>

NextRun == RunHelperCall

SpecRun == InitRunHelper /\ [][NextRun]_vars

\* ------------------------------------------------------ RunHelper properties
\* The 1-based position of the first occurrence of a name.
FirstOccurrence(names, name) == MinOf({k \in 1..Len(names) : names[k] = name})
\* The tensors the response holds under a name.
TensorsFor(name) ==
  {run_resp.tensors[k].tensor :
     k \in {j \in 1..Len(run_resp.tensors) : run_resp.tensors[j].name = name}}
Unrequested ==
  \E k \in 1..Len(run_resp.tensors) :
    \A i \in 1..Len(output_tensor_names) :
      run_resp.tensors[k].name # output_tensor_names[i]

\* The request names every distinct fetch once, in the order of the first
\* occurrences.
FetchesDistinct ==
  /\ {fetch[k] : k \in 1..Len(fetch)} =
       {output_tensor_names[k] : k \in 1..Len(output_tensor_names)}
  /\ \A j \in 1..Len(fetch), k \in 1..Len(fetch) :
       j < k => FirstOccurrence(output_tensor_names, fetch[j])
                  < FirstOccurrence(output_tensor_names, fetch[k])

\* outputs[i] is a tensor the master returned for output_tensor_names[i] (the
\* one, when it returned one), and duplicates share the first occurrence's.
OutputsInOrder ==
  \A i \in 1..Len(output_tensor_names) :
    /\ i <= Len(outputs)
    /\ outputs[i] = outputs[FirstOccurrence(output_tensor_names,
                                            output_tensor_names[i])]
    /\ TensorsFor(output_tensor_names[i]) # {} =>
         outputs[i] \in TensorsFor(output_tensor_names[i])

\* C30: RunHelper requests each distinct fetch name once and, when it
\* returns OK, outputs has the length and order of output_tensor_names:
\* outputs[i] is the tensor returned for output_tensor_names[i], duplicates
\* included, whatever the order of the response; a response tensor under an
\* unrequested name makes it return Internal.
C30_OutputsMatchNames ==
  run_pc = "returned" =>
    /\ FetchesDistinct
    /\ run_s = "OK" =>
         (Len(outputs) = Len(output_tensor_names) /\ OutputsInOrder)
    /\ (run_resp.s = "OK" /\ Unrequested) => run_s = "Internal"

====
